---- MODULE Spec2Model ----
(***************************************************************************)
(* Java syntax diagrams: the grammar coverage verifier, the rule registry  *)
(* with its render adapter, the SVG serializer and the App's rule filter.  *)
(*                                                                         *)
(* Strings are sequences of UTF-16 code units, so that substring tests,    *)
(* lower-casing, trimming and the default sort order are computed as the   *)
(* JavaScript runtime computes them.                                       *)
(***************************************************************************)
EXTENDS Integers, Sequences, FiniteSets, TLC

VARIABLES
  \* coverage verifier (check-grammar-coverage.mjs)
  grammarFile, ebnfFile, vpc, reads, diagramRules, ebnfRules,
  missingEbnf, missingDiagram, hasErrors, out, exitCode,
  \* rule registries, render capability and rendered rules
  rules25, rulesLegacy, lib, runtime, renders, crashed,
  \* the trees createRuleDiagram returned, and how many nodes exist
  lookups, allocated,
  \* the latest call of an exported operation of a registry
  queried,
  \* direct use of the SVG serializer
  direct,
  \* the precedence-chain helper
  chainIn, chainOut,
  \* one call of an adapter's wrapper
  adapterCall,
  \* the App
  sectionRules, sectionOrder, sectionTitles, query, expandedSections,
  interacted

verifierVars == <<grammarFile, ebnfFile, vpc, reads, diagramRules, ebnfRules,
                  missingEbnf, missingDiagram, hasErrors, out, exitCode>>

renderVars == <<rules25, rulesLegacy, lib, runtime, renders, crashed,
                lookups, allocated, queried>>

serializeVars == <<direct>>

chainVars == <<chainIn, chainOut, adapterCall>>

appVars == <<sectionRules, sectionOrder, sectionTitles, query,
             expandedSections, interacted>>

vars == <<verifierVars, renderVars, serializeVars, chainVars, appVars>>

(***************************************************************************)
(* Bounds                                                                  *)
(***************************************************************************)
\* longest list of regex matches a definition file holds
MaxFileLen == 3

\* longest operator list handed to the chain helper
MaxOps == 2

\* longest rule list of a section
MaxListLen == 2

\* longest filter query
MaxQueryLen == 2

\* most calls of createRuleDiagram in one run
MaxLookups == 3

(***************************************************************************)
(* Strings                                                                 *)
(***************************************************************************)
Range(s) == { s[i] : i \in 1..Len(s) }

SeqsUpTo(S, n) == UNION { [1..k -> S] : k \in 0..n }

\* String.prototype.includes
Contains(hay, needle) ==
  \E i \in 0..(Len(hay) - Len(needle)) :
    \A j \in 1..Len(needle) : hay[i + j] = needle[j]

\* the order of the default Array.prototype.sort: by UTF-16 code units
StrLess(a, b) ==
  \E k \in 1..(Len(a) + 1) :
    /\ k <= Len(b)
    /\ \A j \in 1..(k - 1) : a[j] = b[j]
    /\ (k = Len(a) + 1 \/ a[k] < b[k])

StrLessEq(a, b) == a = b \/ StrLess(a, b)

IsSorted(s) == \A i \in 1..(Len(s) - 1) : StrLessEq(s[i], s[i + 1])

NoDuplicates(s) == \A i, j \in 1..Len(s) : i # j => s[i] # s[j]

(***************************************************************************)
(* String literals of the source                                           *)
(***************************************************************************)
\* "<!-- empty diagram -->"
EMPTY_DIAGRAM == <<60, 33, 45, 45, 32, 101, 109, 112, 116, 121, 32, 100, 105, 97, 103, 114, 97, 109, 32, 45, 45, 62>>

\* "<!-- toSVG() returned unexpected value -->"
UNEXPECTED_VALUE == <<60, 33, 45, 45, 32, 116, 111, 83, 86, 71, 40, 41, 32, 114, 101, 116, 117, 114, 110, 101, 100, 32, 117, 110, 101, 120, 112, 101, 99, 116, 101, 100, 32, 118, 97, 108, 117, 101, 32, 45, 45, 62>>

\* "<!-- Diagram does not support toSVG/toString -->"
NOT_SUPPORTED == <<60, 33, 45, 45, 32, 68, 105, 97, 103, 114, 97, 109, 32, 100, 111, 101, 115, 32, 110, 111, 116, 32, 115, 117, 112, 112, 111, 114, 116, 32, 116, 111, 83, 86, 71, 47, 116, 111, 83, 116, 114, 105, 110, 103, 32, 45, 45, 62>>

\* "<!-- Render error: "
RENDER_ERROR_OPEN == <<60, 33, 45, 45, 32, 82, 101, 110, 100, 101, 114, 32, 101, 114, 114, 111, 114, 58, 32>>

\* "<!-- "
COMMENT_OPEN == <<60, 33, 45, 45, 32>>

\* " -->"
COMMENT_CLOSE == <<32, 45, 45, 62>>

\* "without 'new'"
WITHOUT_NEW == <<119, 105, 116, 104, 111, 117, 116, 32, 39, 110, 101, 119, 39>>

\* "Class constructor"
CLASS_CONSTRUCTOR == <<67, 108, 97, 115, 115, 32, 99, 111, 110, 115, 116, 114, 117, 99, 116, 111, 114>>

\* "Cannot call a class as a function"
CANNOT_CALL_CLASS == <<67, 97, 110, 110, 111, 116, 32, 99, 97, 108, 108, 32, 97, 32, 99, 108, 97, 115, 115, 32, 97, 115, 32, 97, 32, 102, 117, 110, 99, 116, 105, 111, 110>>

\* "Class constructor "
CLASS_CONSTRUCTOR_SP == <<67, 108, 97, 115, 115, 32, 99, 111, 110, 115, 116, 114, 117, 99, 116, 111, 114, 32>>

\* " cannot be invoked without 'new'"
CANNOT_BE_INVOKED == <<32, 99, 97, 110, 110, 111, 116, 32, 98, 101, 32, 105, 110, 118, 111, 107, 101, 100, 32, 119, 105, 116, 104, 111, 117, 116, 32, 39, 110, 101, 119, 39>>

\* "No factory defined for "
NO_FACTORY_FOR == <<78, 111, 32, 102, 97, 99, 116, 111, 114, 121, 32, 100, 101, 102, 105, 110, 101, 100, 32, 102, 111, 114, 32>>

\* "[object Object]"
OBJECT_OBJECT == <<91, 111, 98, 106, 101, 99, 116, 32, 79, 98, 106, 101, 99, 116, 93>>

\* "undefined"
S_undefined == <<117, 110, 100, 101, 102, 105, 110, 101, 100>>

\* "null"
S_null == <<110, 117, 108, 108>>

\* "boom"
S_boom == <<98, 111, 111, 109>>

\* "Cannot read properties of undefined (reading 'toSVG')"
CANNOT_READ_TOSVG == <<67, 97, 110, 110, 111, 116, 32, 114, 101, 97, 100, 32, 112, 114, 111, 112, 101, 114, 116, 105, 101, 115, 32, 111, 102, 32, 117, 110, 100, 101, 102, 105, 110, 101, 100, 32, 40, 114, 101, 97, 100, 105, 110, 103, 32, 39, 116, 111, 83, 86, 71, 39, 41>>

\* "XMLSerializer is not defined"
XMLSERIALIZER_UNDEFINED == <<88, 77, 76, 83, 101, 114, 105, 97, 108, 105, 122, 101, 114, 32, 105, 115, 32, 110, 111, 116, 32, 100, 101, 102, 105, 110, 101, 100>>

\* "<svg>"
SVG_OPEN == <<60, 115, 118, 103, 62>>

\* "<svg xmlns="http://www.w3.org/2000/svg">"
SVG_OPEN_XMLNS == <<60, 115, 118, 103, 32, 120, 109, 108, 110, 115, 61, 34, 104, 116, 116, 112, 58, 47, 47, 119, 119, 119, 46, 119, 51, 46, 111, 114, 103, 47, 50, 48, 48, 48, 47, 115, 118, 103, 34, 62>>

\* "</svg>"
SVG_CLOSE == <<60, 47, 115, 118, 103, 62>>

\* "<text>"
TEXT_OPEN == <<60, 116, 101, 120, 116, 62>>

\* "</text>"
TEXT_CLOSE == <<60, 47, 116, 101, 120, 116, 62>>


\* "Identifier"
sIdentifier == <<73, 100, 101, 110, 116, 105, 102, 105, 101, 114>>

\* "IdentifierChars"
sIdentifierChars == <<73, 100, 101, 110, 116, 105, 102, 105, 101, 114, 67, 104, 97, 114, 115>>

\* "JavaLetter"
sJavaLetter == <<74, 97, 118, 97, 76, 101, 116, 116, 101, 114>>

\* "JavaLetterOrDigit"
sJavaLetterOrDigit == <<74, 97, 118, 97, 76, 101, 116, 116, 101, 114, 79, 114, 68, 105, 103, 105, 116>>

\* "but not ReservedKeyword, BooleanLiteral, or NullLiteral"
sButNot == <<98, 117, 116, 32, 110, 111, 116, 32, 82, 101, 115, 101, 114, 118, 101, 100, 75, 101, 121, 119, 111, 114, 100, 44, 32, 66, 111, 111, 108, 101, 97, 110, 76, 105, 116, 101, 114, 97, 108, 44, 32, 111, 114, 32, 78, 117, 108, 108, 76, 105, 116, 101, 114, 97, 108>>

\* "ConditionalOrExpression"
sConditionalOrExpression == <<67, 111, 110, 100, 105, 116, 105, 111, 110, 97, 108, 79, 114, 69, 120, 112, 114, 101, 115, 115, 105, 111, 110>>

\* "ConditionalAndExpression"
sConditionalAndExpression == <<67, 111, 110, 100, 105, 116, 105, 111, 110, 97, 108, 65, 110, 100, 69, 120, 112, 114, 101, 115, 115, 105, 111, 110>>

\* "||"
sOrOr == <<124, 124>>

\* "NoSuchRule"
sNoSuchRule == <<78, 111, 83, 117, 99, 104, 82, 117, 108, 101>>

\* "empty"
sEmpty == <<101, 109, 112, 116, 121>>

\* "true"
S_true == <<116, 114, 117, 101>>

\* "false"
S_false == <<102, 97, 108, 115, 101>>

(***************************************************************************)
(* JavaScript values                                                       *)
(***************************************************************************)
Undefined == [t |-> "undefined"]

Null == [t |-> "null"]

Bool(b) == [t |-> "boolean", b |-> b]

Num(n) == [t |-> "number", n |-> n]

Str(s) == [t |-> "string", s |-> s]

\* an Error object
Err(name, message) ==
  [t |-> "object", kind |-> "Error", name |-> name, message |-> message]

\* an object: the node kind and constructor arguments it was built from, how
\* its toSVG member behaves and how its toString member behaves
Obj(kind, args, svg, str) ==
  [t |-> "object", kind |-> kind, args |-> args, svg |-> svg, str |-> str]

\* a DOM element: it has a nodeType; outerHTML may be missing
Element(outerHTML, xml) ==
  [t |-> "object", kind |-> "Element", outerHTML |-> outerHTML, xml |-> xml]

\* ToBoolean
Truthy(v) ==
  CASE v.t = "undefined" -> FALSE
    [] v.t = "null" -> FALSE
    [] v.t = "boolean" -> v.b
    [] v.t = "number" -> v.n # 0
    [] v.t = "string" -> v.s # <<>>
    [] OTHER -> TRUE

Nullish(v) == v.t \in {"undefined", "null"}

\* String(v) of a primitive (numbers: one decimal digit)
ToStr(v) ==
  CASE v.t = "undefined" -> S_undefined
    [] v.t = "null" -> S_null
    [] v.t = "boolean" -> IF v.b THEN S_true ELSE S_false
    [] v.t = "number" -> <<48 + v.n>>
    [] v.t = "string" -> v.s

\* the outcome of evaluating an expression: a value or a thrown value, and
\* the operations of the render capability invoked on the way
Ok(v, calls) == [ok |-> TRUE, val |-> v, calls |-> calls]

Throw(e, calls) == [ok |-> FALSE, val |-> e, calls |-> calls]

Lit(v) == Ok(v, <<>>)

After(calls, r) == [r EXCEPT !.calls = calls \o r.calls]

\* an argument list, evaluated left to right up to the first throw
RECURSIVE EvalArgs(_)
EvalArgs(rs) ==
  IF rs = <<>> THEN Ok(<<>>, <<>>)
  ELSE LET h == Head(rs)
       IN IF ~h.ok THEN h
          ELSE LET rest == EvalArgs(Tail(rs))
               IN IF rest.ok
                    THEN Ok(<<h.val>> \o rest.val, h.calls \o rest.calls)
                    ELSE After(h.calls, rest)

(***************************************************************************)
(* The render capability (@prantlf/railroad-diagrams), as the code uses it *)
(***************************************************************************)
Kinds == {"Diagram", "Sequence", "Choice", "Optional", "OneOrMore",
          "ZeroOrMore", "Terminal", "NonTerminal", "Stack", "Comment"}

KindName(kind) ==
  CASE kind = "Diagram" -> <<68, 105, 97, 103, 114, 97, 109>>
    [] kind = "Sequence" -> <<83, 101, 113, 117, 101, 110, 99, 101>>
    [] kind = "Choice" -> <<67, 104, 111, 105, 99, 101>>
    [] kind = "Optional" -> <<79, 112, 116, 105, 111, 110, 97, 108>>
    [] kind = "OneOrMore" -> <<79, 110, 101, 79, 114, 77, 111, 114, 101>>
    [] kind = "ZeroOrMore" -> <<90, 101, 114, 111, 79, 114, 77, 111, 114, 101>>
    [] kind = "Terminal" -> <<84, 101, 114, 109, 105, 110, 97, 108>>
    [] kind = "NonTerminal" -> <<78, 111, 110, 84, 101, 114, 109, 105, 110, 97, 108>>
    [] kind = "Stack" -> <<83, 116, 97, 99, 107>>
    [] kind = "Comment" -> <<67, 111, 109, 109, 101, 110, 116>>

\* the shapes the package has shipped: factory functions, native ES classes
\* (a bare call throws "Class constructor X cannot be invoked without 'new'")
\* and transpiled classes ("Cannot call a class as a function")
Shapes == {"function", "class", "transpiled"}

\* what toSVG() of a built diagram does
SvgModes == {"string", "empty", "node", "nodeNoOuterHTML", "null", "number",
             "plainObject", "throwsError", "throwsUndefined", "absent"}

\* what toString() of an object does
StrModes == {"markup", "objectObject", "throwsError", "absent"}

\* the capability in one run: its shape, the constructor (if any) that
\* rejects its arguments with an error of its own, and its toSVG
Libs == [shape : Shapes, broken : {"none", "Comment"},
         svg : SvgModes]

CallEv(op, kind) == [op |-> op, kind |-> kind]

\* new fn(...args)
LibNew(kind, args) ==
  IF lib.broken = kind
    THEN Throw(Err("Error", S_boom), <<CallEv("new", kind)>>)
    ELSE Ok(Obj(kind, args, lib.svg, "markup"), <<CallEv("new", kind)>>)

\* fn(...args)
LibCall(kind, args) ==
  CASE lib.shape = "class" ->
         Throw(Err("TypeError",
                   CLASS_CONSTRUCTOR_SP \o KindName(kind) \o CANNOT_BE_INVOKED),
               <<CallEv("call", kind)>>)
    [] lib.shape = "transpiled" ->
         Throw(Err("TypeError", CANNOT_CALL_CLASS), <<CallEv("call", kind)>>)
    [] lib.shape = "function" ->
         IF lib.broken = kind
           THEN Throw(Err("Error", S_boom), <<CallEv("call", kind)>>)
           ELSE Ok(Obj(kind, args, lib.svg, "markup"),
                   <<CallEv("call", kind)>>)

\* /^class\s/.test(Function.prototype.toString.call(fn))
isClass(kind) == lib.shape = "class"

\* the text the capability draws for a node: every label, in order
RECURSIVE Markup(_)
RECURSIVE MarkupAll(_)
MarkupAll(args) ==
  IF args = <<>> THEN <<>>
  ELSE (IF Head(args).t = "object" THEN Markup(Head(args)) ELSE <<>>)
       \o MarkupAll(Tail(args))

Markup(node) ==
  IF node.kind \in {"Terminal", "NonTerminal", "Comment"}
    THEN IF node.args # <<>> /\ node.args[1].t = "string"
           THEN TEXT_OPEN \o node.args[1].s \o TEXT_CLOSE
           ELSE <<>>
    ELSE MarkupAll(node.args)

SvgText(node) == SVG_OPEN \o Markup(node) \o SVG_CLOSE

\* the same element as XMLSerializer writes it: with its namespace declared
XmlText(node) == SVG_OPEN_XMLNS \o Markup(node) \o SVG_CLOSE

\* diagram.toSVG()
ToSVG(d) ==
  LET c == <<CallEv("toSVG", d.kind)>>
  IN CASE d.svg = "string" -> Ok(Str(SvgText(d)), c)
       [] d.svg = "empty" -> Ok(Str(<<>>), c)
       [] d.svg = "node" -> Ok(Element(Str(SvgText(d)), XmlText(d)), c)
       [] d.svg = "nodeNoOuterHTML" -> Ok(Element(Undefined, XmlText(d)), c)
       [] d.svg = "null" -> Ok(Null, c)
       [] d.svg = "number" -> Ok(Num(7), c)
       [] d.svg = "plainObject" -> Ok(Obj("plain", <<>>, "absent", "objectObject"), c)
       [] d.svg = "throwsError" -> Throw(Err("Error", S_boom), c)
       [] d.svg = "throwsUndefined" -> Throw(Undefined, c)

\* diagram.toString()
ToStringOf(d) ==
  IF d.t # "object" THEN Ok(Str(ToStr(d)), <<>>)
  ELSE LET c == <<CallEv("toString", d.kind)>>
       IN CASE d.str = "markup" -> Ok(Str(SvgText(d)), c)
            [] d.str = "objectObject" -> Ok(Str(OBJECT_OBJECT), c)
            [] d.str = "throwsError" -> Throw(Err("Error", S_boom), c)

\* new XMLSerializer().serializeToString(el)
XMLSerialize(el) ==
  IF runtime.xmlSerializer
    THEN Ok(Str(el.xml), <<CallEv("serializeToString", "Element")>>)
    ELSE Throw(Err("ReferenceError", XMLSERIALIZER_UNDEFINED), <<>>)

(***************************************************************************)
(* The adapters                                                            *)
(***************************************************************************)
\* err?.message ?? err
MessageOr(e) ==
  IF Nullish(e) THEN e
  ELSE IF e.t = "object" /\ e.kind = "Error" THEN Str(e.message)
  ELSE IF e.t = "object" THEN Undefined
  ELSE e

ErrText(e) == ToStr(IF Nullish(MessageOr(e)) THEN e ELSE MessageOr(e))

\* the adapter without its retry
rr_NoRetry(kind, args) ==
  IF isClass(kind) THEN LibNew(kind, args) ELSE LibCall(kind, args)

\* java25Grammar.ts: rr(fn, ...args)
rr(kind, args) ==
  IF isClass(kind) THEN LibNew(kind, args)
  ELSE LET r == LibCall(kind, args)
       IN IF r.ok THEN r
          ELSE LET msg == ErrText(r.val)
               IN IF \/ Contains(msg, WITHOUT_NEW)
                     \/ Contains(msg, CLASS_CONSTRUCTOR)
                     \/ Contains(msg, CANNOT_CALL_CLASS)
                    THEN After(r.calls, LibNew(kind, args))
                    ELSE r

\* the adapter that lets every error of the direct call through
callOrNew_NoRetry(kind, args) == LibCall(kind, args)

\* javaGrammar.ts: callOrNew(Ctor, ...args)
callOrNew(kind, args) ==
  LET r == LibCall(kind, args)
  IN IF r.ok THEN r
     ELSE IF /\ r.val.t = "object"
             /\ r.val.kind = "Error"
             /\ r.val.name = "TypeError"
             /\ Contains(r.val.message, WITHOUT_NEW)
            THEN After(r.calls, LibNew(kind, args))
            ELSE r

\* a wrapper applied to argument expressions: the arguments, then the call
Via25(kind, argExprs) ==
  LET a == EvalArgs(argExprs)
  IN IF a.ok THEN After(a.calls, rr(kind, a.val)) ELSE a

ViaLegacy(kind, argExprs) ==
  LET a == EvalArgs(argExprs)
  IN IF a.ok THEN After(a.calls, callOrNew(kind, a.val)) ELSE a

\* java25Grammar.ts shorthand helpers
D(items) == Via25("Diagram", items)

\* Seq of the source (Seq is the Sequences module's operator here)
Seq_(items) == Via25("Sequence", items)

Ch(items) == Via25("Choice", items)

Opt(items) == Via25("Optional", items)

OOM(items) == Via25("OneOrMore", items)

ZOM(items) == Via25("ZeroOrMore", items)

Stk(items) == Via25("Stack", items)

Cmt(text) == Via25("Comment", <<Lit(Str(text))>>)

T(text) == Via25("Terminal", <<Lit(Str(text))>>)

\* a NonTerminal that builds a diagram for the rule its label names
NT_Resolve(text) == Via25("NonTerminal", <<D(<<Lit(Str(text))>>)>>)

NT(text) == Via25("NonTerminal", <<Lit(Str(text))>>)

\* javaGrammar.ts wrapped primitives
LDiagram(a) == ViaLegacy("Diagram", a)

LSequence(a) == ViaLegacy("Sequence", a)

LChoice(a) == ViaLegacy("Choice", a)

LOptional(a) == ViaLegacy("Optional", a)

LOneOrMore(a) == ViaLegacy("OneOrMore", a)

LZeroOrMore(a) == ViaLegacy("ZeroOrMore", a)

LTerminal(a) == ViaLegacy("Terminal", a)

LNonTerminal(a) == ViaLegacy("NonTerminal", a)

LStack(a) == ViaLegacy("Stack", a)

LComment(a) == ViaLegacy("Comment", a)

\* const T = (s) => Terminal(s): one argument, whatever the caller passes
LT(s) == LTerminal(<<Lit(Str(s))>>)

LNT(s) == LNonTerminal(<<Lit(Str(s))>>)

(***************************************************************************)
(* The rule registries                                                     *)
(***************************************************************************)
\* the expressions of the source, as written: a call of a helper with its
\* arguments, a string literal, a number literal, an array literal
Call(h, a) == [h |-> h, a |-> a]

StrLit(s) == [h |-> "string", s |-> s]

NumLit(n) == [h |-> "number", n |-> n]

ArrLit(a) == [h |-> "array", a |-> a]

\* java25Grammar.ts: the rules.set calls, in file order, each with the body of
\* the arrow function it registers
RuleSet25 == <<
  \* lines 386-393: rules.set("Identifier", () =>
  \* D(Seq(NT("IdentifierChars"), Cmt(
  \* "but not ReservedKeyword, BooleanLiteral, or NullLiteral")))
  [name |-> <<73, 100, 101, 110, 116, 105, 102, 105, 101, 114>>,
   body |-> Call("D", <<Call("Seq", <<Call("NT", <<StrLit(<<73, 100, 101, 110,
    116, 105, 102, 105, 101, 114, 67, 104, 97, 114, 115>>)>>), Call("Cmt",
    <<StrLit(<<98, 117, 116, 32, 110, 111, 116, 32, 82, 101, 115, 101, 114,
    118, 101, 100, 75, 101, 121, 119, 111, 114, 100, 44, 32, 66, 111, 111, 108,
    101, 97, 110, 76, 105, 116, 101, 114, 97, 108, 44, 32, 111, 114, 32, 78,
    117, 108, 108, 76, 105, 116, 101, 114, 97, 108>>)>>)>>)>>)],
  \* lines 395-399: rules.set("IdentifierChars", () =>
  \* D(Seq(NT("JavaLetter"), ZOM(NT("JavaLetterOrDigit"))))
  [name |-> <<73, 100, 101, 110, 116, 105, 102, 105, 101, 114, 67, 104, 97,
    114, 115>>,
   body |-> Call("D", <<Call("Seq", <<Call("NT", <<StrLit(<<74, 97, 118, 97,
    76, 101, 116, 116, 101, 114>>)>>), Call("ZOM", <<Call("NT", <<StrLit(<<74,
    97, 118, 97, 76, 101, 116, 116, 101, 114, 79, 114, 68, 105, 103, 105,
    116>>)>>)>>)>>)>>)],
  \* lines 401-403: rules.set("JavaLetter", () =>
  \* D(Cmt("any Unicode character that is a Java letter"))
  [name |-> <<74, 97, 118, 97, 76, 101, 116, 116, 101, 114>>,
   body |-> Call("D", <<Call("Cmt", <<StrLit(<<97, 110, 121, 32, 85, 110, 105,
    99, 111, 100, 101, 32, 99, 104, 97, 114, 97, 99, 116, 101, 114, 32, 116,
    104, 97, 116, 32, 105, 115, 32, 97, 32, 74, 97, 118, 97, 32, 108, 101, 116,
    116, 101, 114>>)>>)>>)],
  \* lines 405-407: rules.set("JavaLetterOrDigit", () =>
  \* D(Cmt("any Unicode character that is a Java letter-or-digit"))
  [name |-> <<74, 97, 118, 97, 76, 101, 116, 116, 101, 114, 79, 114, 68, 105,
    103, 105, 116>>,
   body |-> Call("D", <<Call("Cmt", <<StrLit(<<97, 110, 121, 32, 85, 110, 105,
    99, 111, 100, 101, 32, 99, 104, 97, 114, 97, 99, 116, 101, 114, 32, 116,
    104, 97, 116, 32, 105, 115, 32, 97, 32, 74, 97, 118, 97, 32, 108, 101, 116,
    116, 101, 114, 45, 111, 114, 45, 100, 105, 103, 105, 116>>)>>)>>)],
  \* lines 409-416: rules.set("TypeIdentifier", () =>
  \* D(Seq(NT("Identifier"), Cmt(
  \* "but not permits, record, sealed, var, or yield")))
  [name |-> <<84, 121, 112, 101, 73, 100, 101, 110, 116, 105, 102, 105, 101,
    114>>,
   body |-> Call("D", <<Call("Seq", <<Call("NT", <<StrLit(<<73, 100, 101, 110,
    116, 105, 102, 105, 101, 114>>)>>), Call("Cmt", <<StrLit(<<98, 117, 116,
    32, 110, 111, 116, 32, 112, 101, 114, 109, 105, 116, 115, 44, 32, 114, 101,
    99, 111, 114, 100, 44, 32, 115, 101, 97, 108, 101, 100, 44, 32, 118, 97,
    114, 44, 32, 111, 114, 32, 121, 105, 101, 108, 100>>)>>)>>)>>)],
  \* lines 418-422: rules.set("UnqualifiedMethodIdentifier", () =>
  \* D(Seq(NT("Identifier"), Cmt("but not yield")))
  [name |-> <<85, 110, 113, 117, 97, 108, 105, 102, 105, 101, 100, 77, 101,
    116, 104, 111, 100, 73, 100, 101, 110, 116, 105, 102, 105, 101, 114>>,
   body |-> Call("D", <<Call("Seq", <<Call("NT", <<StrLit(<<73, 100, 101, 110,
    116, 105, 102, 105, 101, 114>>)>>), Call("Cmt", <<StrLit(<<98, 117, 116,
    32, 110, 111, 116, 32, 121, 105, 101, 108, 100>>)>>)>>)>>)],
  \* lines 424-436: rules.set("Literal", () =>
  \* D(Ch(0, NT("IntegerLiteral"), NT("FloatingPointLiteral"), NT(
  \* "BooleanLiteral"), NT("CharacterLiteral"), NT("StringLiteral"), NT(
  \* "TextBlock"), NT("NullLiteral")))
  [name |-> <<76, 105, 116, 101, 114, 97, 108>>,
   body |-> Call("D", <<Call("Ch", <<NumLit(0), Call("NT", <<StrLit(<<73, 110,
    116, 101, 103, 101, 114, 76, 105, 116, 101, 114, 97, 108>>)>>), Call("NT",
    <<StrLit(<<70, 108, 111, 97, 116, 105, 110, 103, 80, 111, 105, 110, 116,
    76, 105, 116, 101, 114, 97, 108>>)>>), Call("NT", <<StrLit(<<66, 111, 111,
    108, 101, 97, 110, 76, 105, 116, 101, 114, 97, 108>>)>>), Call("NT",
    <<StrLit(<<67, 104, 97, 114, 97, 99, 116, 101, 114, 76, 105, 116, 101, 114,
    97, 108>>)>>), Call("NT", <<StrLit(<<83, 116, 114, 105, 110, 103, 76, 105,
    116, 101, 114, 97, 108>>)>>), Call("NT", <<StrLit(<<84, 101, 120, 116, 66,
    108, 111, 99, 107>>)>>), Call("NT", <<StrLit(<<78, 117, 108, 108, 76, 105,
    116, 101, 114, 97, 108>>)>>)>>)>>)],
  \* lines 442-444: rules.set("Type", () =>
  \* D(Ch(0, NT("PrimitiveType"), NT("ReferenceType")))
  [name |-> <<84, 121, 112, 101>>,
   body |-> Call("D", <<Call("Ch", <<NumLit(0), Call("NT", <<StrLit(<<80, 114,
    105, 109, 105, 116, 105, 118, 101, 84, 121, 112, 101>>)>>), Call("NT",
    <<StrLit(<<82, 101, 102, 101, 114, 101, 110, 99, 101, 84, 121, 112,
    101>>)>>)>>)>>)],
  \* lines 446-453: rules.set("PrimitiveType", () =>
  \* D(Ch(0, Seq(ZOM(NT("Annotation")), NT("NumericType")), Seq(ZOM(NT(
  \* "Annotation")), T("boolean"))))
  [name |-> <<80, 114, 105, 109, 105, 116, 105, 118, 101, 84, 121, 112, 101>>,
   body |-> Call("D", <<Call("Ch", <<NumLit(0), Call("Seq", <<Call("ZOM",
    <<Call("NT", <<StrLit(<<65, 110, 110, 111, 116, 97, 116, 105, 111,
    110>>)>>)>>), Call("NT", <<StrLit(<<78, 117, 109, 101, 114, 105, 99, 84,
    121, 112, 101>>)>>)>>), Call("Seq", <<Call("ZOM", <<Call("NT",
    <<StrLit(<<65, 110, 110, 111, 116, 97, 116, 105, 111, 110>>)>>)>>),
    Call("T", <<StrLit(<<98, 111, 111, 108, 101, 97, 110>>)>>)>>)>>)>>)],
  \* lines 455-457: rules.set("NumericType", () =>
  \* D(Ch(0, NT("IntegralType"), NT("FloatingPointType")))
  [name |-> <<78, 117, 109, 101, 114, 105, 99, 84, 121, 112, 101>>,
   body |-> Call("D", <<Call("Ch", <<NumLit(0), Call("NT", <<StrLit(<<73, 110,
    116, 101, 103, 114, 97, 108, 84, 121, 112, 101>>)>>), Call("NT",
    <<StrLit(<<70, 108, 111, 97, 116, 105, 110, 103, 80, 111, 105, 110, 116,
    84, 121, 112, 101>>)>>)>>)>>)],
  \* lines 459-461: rules.set("IntegralType", () =>
  \* D(Ch(0, T("byte"), T("short"), T("int"), T("long"), T("char")))
  [name |-> <<73, 110, 116, 101, 103, 114, 97, 108, 84, 121, 112, 101>>,
   body |-> Call("D", <<Call("Ch", <<NumLit(0), Call("T", <<StrLit(<<98, 121,
    116, 101>>)>>), Call("T", <<StrLit(<<115, 104, 111, 114, 116>>)>>),
    Call("T", <<StrLit(<<105, 110, 116>>)>>), Call("T", <<StrLit(<<108, 111,
    110, 103>>)>>), Call("T", <<StrLit(<<99, 104, 97, 114>>)>>)>>)>>)],
  \* lines 463-465: rules.set("FloatingPointType", () =>
  \* D(Ch(0, T("float"), T("double")))
  [name |-> <<70, 108, 111, 97, 116, 105, 110, 103, 80, 111, 105, 110, 116, 84,
    121, 112, 101>>,
   body |-> Call("D", <<Call("Ch", <<NumLit(0), Call("T", <<StrLit(<<102, 108,
    111, 97, 116>>)>>), Call("T", <<StrLit(<<100, 111, 117, 98, 108,
    101>>)>>)>>)>>)],
  \* lines 467-469: rules.set("ReferenceType", () =>
  \* D(Ch(0, NT("ClassOrInterfaceType"), NT("TypeVariable"), NT("ArrayType")))
  [name |-> <<82, 101, 102, 101, 114, 101, 110, 99, 101, 84, 121, 112, 101>>,
   body |-> Call("D", <<Call("Ch", <<NumLit(0), Call("NT", <<StrLit(<<67, 108,
    97, 115, 115, 79, 114, 73, 110, 116, 101, 114, 102, 97, 99, 101, 84, 121,
    112, 101>>)>>), Call("NT", <<StrLit(<<84, 121, 112, 101, 86, 97, 114, 105,
    97, 98, 108, 101>>)>>), Call("NT", <<StrLit(<<65, 114, 114, 97, 121, 84,
    121, 112, 101>>)>>)>>)>>)],
  \* lines 471-473: rules.set("ClassOrInterfaceType", () =>
  \* D(Ch(0, NT("ClassType"), NT("InterfaceType")))
  [name |-> <<67, 108, 97, 115, 115, 79, 114, 73, 110, 116, 101, 114, 102, 97,
    99, 101, 84, 121, 112, 101>>,
   body |-> Call("D", <<Call("Ch", <<NumLit(0), Call("NT", <<StrLit(<<67, 108,
    97, 115, 115, 84, 121, 112, 101>>)>>), Call("NT", <<StrLit(<<73, 110, 116,
    101, 114, 102, 97, 99, 101, 84, 121, 112, 101>>)>>)>>)>>)],
  \* lines 475-483: rules.set("ClassType", () =>
  \* D(Ch(0, Seq(ZOM(NT("Annotation")), NT("TypeIdentifier"), Opt(NT(
  \* "TypeArguments"))), Seq(NT("PackageName"), T("."), ZOM(NT("Annotation")),
  \* NT("TypeIdentifier"), Opt(NT("TypeArguments"))), Seq(NT(
  \* "ClassOrInterfaceType"), T("."), ZOM(NT("Annotation")), NT(
  \* "TypeIdentifier"), Opt(NT("TypeArguments")))))
  [name |-> <<67, 108, 97, 115, 115, 84, 121, 112, 101>>,
   body |-> Call("D", <<Call("Ch", <<NumLit(0), Call("Seq", <<Call("ZOM",
    <<Call("NT", <<StrLit(<<65, 110, 110, 111, 116, 97, 116, 105, 111,
    110>>)>>)>>), Call("NT", <<StrLit(<<84, 121, 112, 101, 73, 100, 101, 110,
    116, 105, 102, 105, 101, 114>>)>>), Call("Opt", <<Call("NT", <<StrLit(<<84,
    121, 112, 101, 65, 114, 103, 117, 109, 101, 110, 116, 115>>)>>)>>)>>),
    Call("Seq", <<Call("NT", <<StrLit(<<80, 97, 99, 107, 97, 103, 101, 78, 97,
    109, 101>>)>>), Call("T", <<StrLit(<<46>>)>>), Call("ZOM", <<Call("NT",
    <<StrLit(<<65, 110, 110, 111, 116, 97, 116, 105, 111, 110>>)>>)>>),
    Call("NT", <<StrLit(<<84, 121, 112, 101, 73, 100, 101, 110, 116, 105, 102,
    105, 101, 114>>)>>), Call("Opt", <<Call("NT", <<StrLit(<<84, 121, 112, 101,
    65, 114, 103, 117, 109, 101, 110, 116, 115>>)>>)>>)>>), Call("Seq",
    <<Call("NT", <<StrLit(<<67, 108, 97, 115, 115, 79, 114, 73, 110, 116, 101,
    114, 102, 97, 99, 101, 84, 121, 112, 101>>)>>), Call("T",
    <<StrLit(<<46>>)>>), Call("ZOM", <<Call("NT", <<StrLit(<<65, 110, 110, 111,
    116, 97, 116, 105, 111, 110>>)>>)>>), Call("NT", <<StrLit(<<84, 121, 112,
    101, 73, 100, 101, 110, 116, 105, 102, 105, 101, 114>>)>>), Call("Opt",
    <<Call("NT", <<StrLit(<<84, 121, 112, 101, 65, 114, 103, 117, 109, 101,
    110, 116, 115>>)>>)>>)>>)>>)>>)],
  \* lines 485-487: rules.set("InterfaceType", () =>
  \* D(NT("ClassType"))
  [name |-> <<73, 110, 116, 101, 114, 102, 97, 99, 101, 84, 121, 112, 101>>,
   body |-> Call("D", <<Call("NT", <<StrLit(<<67, 108, 97, 115, 115, 84, 121,
    112, 101>>)>>)>>)],
  \* lines 489-491: rules.set("TypeVariable", () =>
  \* D(Seq(ZOM(NT("Annotation")), NT("TypeIdentifier")))
  [name |-> <<84, 121, 112, 101, 86, 97, 114, 105, 97, 98, 108, 101>>,
   body |-> Call("D", <<Call("Seq", <<Call("ZOM", <<Call("NT", <<StrLit(<<65,
    110, 110, 111, 116, 97, 116, 105, 111, 110>>)>>)>>), Call("NT",
    <<StrLit(<<84, 121, 112, 101, 73, 100, 101, 110, 116, 105, 102, 105, 101,
    114>>)>>)>>)>>)],
  \* lines 493-501: rules.set("ArrayType", () =>
  \* D(Ch(0, Seq(NT("PrimitiveType"), NT("Dims")), Seq(NT(
  \* "ClassOrInterfaceType"), NT("Dims")), Seq(NT("TypeVariable"), NT("Dims"))
  \* ))
  [name |-> <<65, 114, 114, 97, 121, 84, 121, 112, 101>>,
   body |-> Call("D", <<Call("Ch", <<NumLit(0), Call("Seq", <<Call("NT",
    <<StrLit(<<80, 114, 105, 109, 105, 116, 105, 118, 101, 84, 121, 112,
    101>>)>>), Call("NT", <<StrLit(<<68, 105, 109, 115>>)>>)>>), Call("Seq",
    <<Call("NT", <<StrLit(<<67, 108, 97, 115, 115, 79, 114, 73, 110, 116, 101,
    114, 102, 97, 99, 101, 84, 121, 112, 101>>)>>), Call("NT", <<StrLit(<<68,
    105, 109, 115>>)>>)>>), Call("Seq", <<Call("NT", <<StrLit(<<84, 121, 112,
    101, 86, 97, 114, 105, 97, 98, 108, 101>>)>>), Call("NT", <<StrLit(<<68,
    105, 109, 115>>)>>)>>)>>)>>)],
  \* lines 503-507: rules.set("Dims", () =>
  \* D(OOM(Seq(ZOM(NT("Annotation")), T("["), T("]"))))
  [name |-> <<68, 105, 109, 115>>,
   body |-> Call("D", <<Call("OOM", <<Call("Seq", <<Call("ZOM", <<Call("NT",
    <<StrLit(<<65, 110, 110, 111, 116, 97, 116, 105, 111, 110>>)>>)>>),
    Call("T", <<StrLit(<<91>>)>>), Call("T", <<StrLit(<<93>>)>>)>>)>>)>>)],
  \* lines 509-513: rules.set("TypeParameter", () =>
  \* D(Seq(ZOM(NT("TypeParameterModifier")), NT("TypeIdentifier"), Opt(NT(
  \* "TypeBound"))))
  [name |-> <<84, 121, 112, 101, 80, 97, 114, 97, 109, 101, 116, 101, 114>>,
   body |-> Call("D", <<Call("Seq", <<Call("ZOM", <<Call("NT", <<StrLit(<<84,
    121, 112, 101, 80, 97, 114, 97, 109, 101, 116, 101, 114, 77, 111, 100, 105,
    102, 105, 101, 114>>)>>)>>), Call("NT", <<StrLit(<<84, 121, 112, 101, 73,
    100, 101, 110, 116, 105, 102, 105, 101, 114>>)>>), Call("Opt", <<Call("NT",
    <<StrLit(<<84, 121, 112, 101, 66, 111, 117, 110, 100>>)>>)>>)>>)>>)],
  \* lines 515-517: rules.set("TypeParameterModifier", () =>
  \* D(NT("Annotation"))
  [name |-> <<84, 121, 112, 101, 80, 97, 114, 97, 109, 101, 116, 101, 114, 77,
    111, 100, 105, 102, 105, 101, 114>>,
   body |-> Call("D", <<Call("NT", <<StrLit(<<65, 110, 110, 111, 116, 97, 116,
    105, 111, 110>>)>>)>>)],
  \* lines 519-526: rules.set("TypeBound", () =>
  \* D(Ch(0, Seq(T("extends"), NT("TypeVariable")), Seq(T("extends"), NT(
  \* "ClassOrInterfaceType"), ZOM(NT("AdditionalBound")))))
  [name |-> <<84, 121, 112, 101, 66, 111, 117, 110, 100>>,
   body |-> Call("D", <<Call("Ch", <<NumLit(0), Call("Seq", <<Call("T",
    <<StrLit(<<101, 120, 116, 101, 110, 100, 115>>)>>), Call("NT",
    <<StrLit(<<84, 121, 112, 101, 86, 97, 114, 105, 97, 98, 108, 101>>)>>)>>),
    Call("Seq", <<Call("T", <<StrLit(<<101, 120, 116, 101, 110, 100, 115>>)>>),
    Call("NT", <<StrLit(<<67, 108, 97, 115, 115, 79, 114, 73, 110, 116, 101,
    114, 102, 97, 99, 101, 84, 121, 112, 101>>)>>), Call("ZOM", <<Call("NT",
    <<StrLit(<<65, 100, 100, 105, 116, 105, 111, 110, 97, 108, 66, 111, 117,
    110, 100>>)>>)>>)>>)>>)>>)],
  \* lines 528-530: rules.set("AdditionalBound", () =>
  \* D(Seq(T("&"), NT("InterfaceType")))
  [name |-> <<65, 100, 100, 105, 116, 105, 111, 110, 97, 108, 66, 111, 117,
    110, 100>>,
   body |-> Call("D", <<Call("Seq", <<Call("T", <<StrLit(<<38>>)>>), Call("NT",
    <<StrLit(<<73, 110, 116, 101, 114, 102, 97, 99, 101, 84, 121, 112,
    101>>)>>)>>)>>)],
  \* lines 532-534: rules.set("TypeArguments", () =>
  \* D(Seq(T("<"), NT("TypeArgumentList"), T(">")))
  [name |-> <<84, 121, 112, 101, 65, 114, 103, 117, 109, 101, 110, 116, 115>>,
   body |-> Call("D", <<Call("Seq", <<Call("T", <<StrLit(<<60>>)>>), Call("NT",
    <<StrLit(<<84, 121, 112, 101, 65, 114, 103, 117, 109, 101, 110, 116, 76,
    105, 115, 116>>)>>), Call("T", <<StrLit(<<62>>)>>)>>)>>)],
  \* lines 536-538: rules.set("TypeArgumentList", () =>
  \* D(Seq(NT("TypeArgument"), ZOM(Seq(T(","), NT("TypeArgument")))))
  [name |-> <<84, 121, 112, 101, 65, 114, 103, 117, 109, 101, 110, 116, 76,
    105, 115, 116>>,
   body |-> Call("D", <<Call("Seq", <<Call("NT", <<StrLit(<<84, 121, 112, 101,
    65, 114, 103, 117, 109, 101, 110, 116>>)>>), Call("ZOM", <<Call("Seq",
    <<Call("T", <<StrLit(<<44>>)>>), Call("NT", <<StrLit(<<84, 121, 112, 101,
    65, 114, 103, 117, 109, 101, 110, 116>>)>>)>>)>>)>>)>>)],
  \* lines 540-542: rules.set("TypeArgument", () =>
  \* D(Ch(0, NT("ReferenceType"), NT("Wildcard")))
  [name |-> <<84, 121, 112, 101, 65, 114, 103, 117, 109, 101, 110, 116>>,
   body |-> Call("D", <<Call("Ch", <<NumLit(0), Call("NT", <<StrLit(<<82, 101,
    102, 101, 114, 101, 110, 99, 101, 84, 121, 112, 101>>)>>), Call("NT",
    <<StrLit(<<87, 105, 108, 100, 99, 97, 114, 100>>)>>)>>)>>)],
  \* lines 544-546: rules.set("Wildcard", () =>
  \* D(Seq(ZOM(NT("Annotation")), T("?"), Opt(NT("WildcardBounds"))))
  [name |-> <<87, 105, 108, 100, 99, 97, 114, 100>>,
   body |-> Call("D", <<Call("Seq", <<Call("ZOM", <<Call("NT", <<StrLit(<<65,
    110, 110, 111, 116, 97, 116, 105, 111, 110>>)>>)>>), Call("T",
    <<StrLit(<<63>>)>>), Call("Opt", <<Call("NT", <<StrLit(<<87, 105, 108, 100,
    99, 97, 114, 100, 66, 111, 117, 110, 100, 115>>)>>)>>)>>)>>)],
  \* lines 548-555: rules.set("WildcardBounds", () =>
  \* D(Ch(0, Seq(T("extends"), NT("ReferenceType")), Seq(T("super"), NT(
  \* "ReferenceType"))))
  [name |-> <<87, 105, 108, 100, 99, 97, 114, 100, 66, 111, 117, 110, 100,
    115>>,
   body |-> Call("D", <<Call("Ch", <<NumLit(0), Call("Seq", <<Call("T",
    <<StrLit(<<101, 120, 116, 101, 110, 100, 115>>)>>), Call("NT",
    <<StrLit(<<82, 101, 102, 101, 114, 101, 110, 99, 101, 84, 121, 112,
    101>>)>>)>>), Call("Seq", <<Call("T", <<StrLit(<<115, 117, 112, 101,
    114>>)>>), Call("NT", <<StrLit(<<82, 101, 102, 101, 114, 101, 110, 99, 101,
    84, 121, 112, 101>>)>>)>>)>>)>>)],
  \* lines 561-563: rules.set("ModuleName", () =>
  \* D(Seq(NT("Identifier"), ZOM(Seq(T("."), NT("Identifier")))))
  [name |-> <<77, 111, 100, 117, 108, 101, 78, 97, 109, 101>>,
   body |-> Call("D", <<Call("Seq", <<Call("NT", <<StrLit(<<73, 100, 101, 110,
    116, 105, 102, 105, 101, 114>>)>>), Call("ZOM", <<Call("Seq", <<Call("T",
    <<StrLit(<<46>>)>>), Call("NT", <<StrLit(<<73, 100, 101, 110, 116, 105,
    102, 105, 101, 114>>)>>)>>)>>)>>)>>)],
  \* lines 565-567: rules.set("PackageName", () =>
  \* D(Seq(NT("Identifier"), ZOM(Seq(T("."), NT("Identifier")))))
  [name |-> <<80, 97, 99, 107, 97, 103, 101, 78, 97, 109, 101>>,
   body |-> Call("D", <<Call("Seq", <<Call("NT", <<StrLit(<<73, 100, 101, 110,
    116, 105, 102, 105, 101, 114>>)>>), Call("ZOM", <<Call("Seq", <<Call("T",
    <<StrLit(<<46>>)>>), Call("NT", <<StrLit(<<73, 100, 101, 110, 116, 105,
    102, 105, 101, 114>>)>>)>>)>>)>>)>>)],
  \* lines 569-576: rules.set("TypeName", () =>
  \* D(Ch(0, NT("TypeIdentifier"), Seq(NT("PackageOrTypeName"), T("."), NT(
  \* "TypeIdentifier"))))
  [name |-> <<84, 121, 112, 101, 78, 97, 109, 101>>,
   body |-> Call("D", <<Call("Ch", <<NumLit(0), Call("NT", <<StrLit(<<84, 121,
    112, 101, 73, 100, 101, 110, 116, 105, 102, 105, 101, 114>>)>>),
    Call("Seq", <<Call("NT", <<StrLit(<<80, 97, 99, 107, 97, 103, 101, 79, 114,
    84, 121, 112, 101, 78, 97, 109, 101>>)>>), Call("T", <<StrLit(<<46>>)>>),
    Call("NT", <<StrLit(<<84, 121, 112, 101, 73, 100, 101, 110, 116, 105, 102,
    105, 101, 114>>)>>)>>)>>)>>)],
  \* lines 578-585: rules.set("ExpressionName", () =>
  \* D(Ch(0, NT("Identifier"), Seq(NT("AmbiguousName"), T("."), NT(
  \* "Identifier"))))
  [name |-> <<69, 120, 112, 114, 101, 115, 115, 105, 111, 110, 78, 97, 109,
    101>>,
   body |-> Call("D", <<Call("Ch", <<NumLit(0), Call("NT", <<StrLit(<<73, 100,
    101, 110, 116, 105, 102, 105, 101, 114>>)>>), Call("Seq", <<Call("NT",
    <<StrLit(<<65, 109, 98, 105, 103, 117, 111, 117, 115, 78, 97, 109,
    101>>)>>), Call("T", <<StrLit(<<46>>)>>), Call("NT", <<StrLit(<<73, 100,
    101, 110, 116, 105, 102, 105, 101, 114>>)>>)>>)>>)>>)],
  \* lines 587-589: rules.set("MethodName", () =>
  \* D(NT("UnqualifiedMethodIdentifier"))
  [name |-> <<77, 101, 116, 104, 111, 100, 78, 97, 109, 101>>,
   body |-> Call("D", <<Call("NT", <<StrLit(<<85, 110, 113, 117, 97, 108, 105,
    102, 105, 101, 100, 77, 101, 116, 104, 111, 100, 73, 100, 101, 110, 116,
    105, 102, 105, 101, 114>>)>>)>>)],
  \* lines 591-593: rules.set("PackageOrTypeName", () =>
  \* D(Seq(NT("Identifier"), ZOM(Seq(T("."), NT("Identifier")))))
  [name |-> <<80, 97, 99, 107, 97, 103, 101, 79, 114, 84, 121, 112, 101, 78,
    97, 109, 101>>,
   body |-> Call("D", <<Call("Seq", <<Call("NT", <<StrLit(<<73, 100, 101, 110,
    116, 105, 102, 105, 101, 114>>)>>), Call("ZOM", <<Call("Seq", <<Call("T",
    <<StrLit(<<46>>)>>), Call("NT", <<StrLit(<<73, 100, 101, 110, 116, 105,
    102, 105, 101, 114>>)>>)>>)>>)>>)>>)],
  \* lines 595-597: rules.set("AmbiguousName", () =>
  \* D(Seq(NT("Identifier"), ZOM(Seq(T("."), NT("Identifier")))))
  [name |-> <<65, 109, 98, 105, 103, 117, 111, 117, 115, 78, 97, 109, 101>>,
   body |-> Call("D", <<Call("Seq", <<Call("NT", <<StrLit(<<73, 100, 101, 110,
    116, 105, 102, 105, 101, 114>>)>>), Call("ZOM", <<Call("Seq", <<Call("T",
    <<StrLit(<<46>>)>>), Call("NT", <<StrLit(<<73, 100, 101, 110, 116, 105,
    102, 105, 101, 114>>)>>)>>)>>)>>)>>)],
  \* lines 603-611: rules.set("CompilationUnit", () =>
  \* D(Ch(0, NT("OrdinaryCompilationUnit"), NT("CompactCompilationUnit"), NT(
  \* "ModularCompilationUnit")))
  [name |-> <<67, 111, 109, 112, 105, 108, 97, 116, 105, 111, 110, 85, 110,
    105, 116>>,
   body |-> Call("D", <<Call("Ch", <<NumLit(0), Call("NT", <<StrLit(<<79, 114,
    100, 105, 110, 97, 114, 121, 67, 111, 109, 112, 105, 108, 97, 116, 105,
    111, 110, 85, 110, 105, 116>>)>>), Call("NT", <<StrLit(<<67, 111, 109, 112,
    97, 99, 116, 67, 111, 109, 112, 105, 108, 97, 116, 105, 111, 110, 85, 110,
    105, 116>>)>>), Call("NT", <<StrLit(<<77, 111, 100, 117, 108, 97, 114, 67,
    111, 109, 112, 105, 108, 97, 116, 105, 111, 110, 85, 110, 105,
    116>>)>>)>>)>>)],
  \* lines 613-621: rules.set("OrdinaryCompilationUnit", () =>
  \* D(Seq(Opt(NT("PackageDeclaration")), ZOM(NT("ImportDeclaration")), ZOM(
  \* NT("TopLevelClassOrInterfaceDeclaration"))))
  [name |-> <<79, 114, 100, 105, 110, 97, 114, 121, 67, 111, 109, 112, 105,
    108, 97, 116, 105, 111, 110, 85, 110, 105, 116>>,
   body |-> Call("D", <<Call("Seq", <<Call("Opt", <<Call("NT", <<StrLit(<<80,
    97, 99, 107, 97, 103, 101, 68, 101, 99, 108, 97, 114, 97, 116, 105, 111,
    110>>)>>)>>), Call("ZOM", <<Call("NT", <<StrLit(<<73, 109, 112, 111, 114,
    116, 68, 101, 99, 108, 97, 114, 97, 116, 105, 111, 110>>)>>)>>),
    Call("ZOM", <<Call("NT", <<StrLit(<<84, 111, 112, 76, 101, 118, 101, 108,
    67, 108, 97, 115, 115, 79, 114, 73, 110, 116, 101, 114, 102, 97, 99, 101,
    68, 101, 99, 108, 97, 114, 97, 116, 105, 111, 110>>)>>)>>)>>)>>)],
  \* lines 623-625: rules.set("ModularCompilationUnit", () =>
  \* D(Seq(ZOM(NT("ImportDeclaration")), NT("ModuleDeclaration")))
  [name |-> <<77, 111, 100, 117, 108, 97, 114, 67, 111, 109, 112, 105, 108, 97,
    116, 105, 111, 110, 85, 110, 105, 116>>,
   body |-> Call("D", <<Call("Seq", <<Call("ZOM", <<Call("NT", <<StrLit(<<73,
    109, 112, 111, 114, 116, 68, 101, 99, 108, 97, 114, 97, 116, 105, 111,
    110>>)>>)>>), Call("NT", <<StrLit(<<77, 111, 100, 117, 108, 101, 68, 101,
    99, 108, 97, 114, 97, 116, 105, 111, 110>>)>>)>>)>>)],
  \* lines 627-637: rules.set("PackageDeclaration", () =>
  \* D(Seq(ZOM(NT("PackageModifier")), T("package"), NT("Identifier"), ZOM(
  \* Seq(T("."), NT("Identifier"))), T(";")))
  [name |-> <<80, 97, 99, 107, 97, 103, 101, 68, 101, 99, 108, 97, 114, 97,
    116, 105, 111, 110>>,
   body |-> Call("D", <<Call("Seq", <<Call("ZOM", <<Call("NT", <<StrLit(<<80,
    97, 99, 107, 97, 103, 101, 77, 111, 100, 105, 102, 105, 101, 114>>)>>)>>),
    Call("T", <<StrLit(<<112, 97, 99, 107, 97, 103, 101>>)>>), Call("NT",
    <<StrLit(<<73, 100, 101, 110, 116, 105, 102, 105, 101, 114>>)>>),
    Call("ZOM", <<Call("Seq", <<Call("T", <<StrLit(<<46>>)>>), Call("NT",
    <<StrLit(<<73, 100, 101, 110, 116, 105, 102, 105, 101, 114>>)>>)>>)>>),
    Call("T", <<StrLit(<<59>>)>>)>>)>>)],
  \* lines 639-641: rules.set("PackageModifier", () =>
  \* D(NT("Annotation"))
  [name |-> <<80, 97, 99, 107, 97, 103, 101, 77, 111, 100, 105, 102, 105, 101,
    114>>,
   body |-> Call("D", <<Call("NT", <<StrLit(<<65, 110, 110, 111, 116, 97, 116,
    105, 111, 110>>)>>)>>)],
  \* lines 643-653: rules.set("ImportDeclaration", () =>
  \* D(Ch(0, NT("SingleTypeImportDeclaration"), NT(
  \* "TypeImportOnDemandDeclaration"), NT("SingleStaticImportDeclaration"),
  \* NT("StaticImportOnDemandDeclaration"), NT("SingleModuleImportDeclaration"
  \* )))
  [name |-> <<73, 109, 112, 111, 114, 116, 68, 101, 99, 108, 97, 114, 97, 116,
    105, 111, 110>>,
   body |-> Call("D", <<Call("Ch", <<NumLit(0), Call("NT", <<StrLit(<<83, 105,
    110, 103, 108, 101, 84, 121, 112, 101, 73, 109, 112, 111, 114, 116, 68,
    101, 99, 108, 97, 114, 97, 116, 105, 111, 110>>)>>), Call("NT",
    <<StrLit(<<84, 121, 112, 101, 73, 109, 112, 111, 114, 116, 79, 110, 68,
    101, 109, 97, 110, 100, 68, 101, 99, 108, 97, 114, 97, 116, 105, 111,
    110>>)>>), Call("NT", <<StrLit(<<83, 105, 110, 103, 108, 101, 83, 116, 97,
    116, 105, 99, 73, 109, 112, 111, 114, 116, 68, 101, 99, 108, 97, 114, 97,
    116, 105, 111, 110>>)>>), Call("NT", <<StrLit(<<83, 116, 97, 116, 105, 99,
    73, 109, 112, 111, 114, 116, 79, 110, 68, 101, 109, 97, 110, 100, 68, 101,
    99, 108, 97, 114, 97, 116, 105, 111, 110>>)>>), Call("NT", <<StrLit(<<83,
    105, 110, 103, 108, 101, 77, 111, 100, 117, 108, 101, 73, 109, 112, 111,
    114, 116, 68, 101, 99, 108, 97, 114, 97, 116, 105, 111, 110>>)>>)>>)>>)],
  \* lines 655-657: rules.set("SingleTypeImportDeclaration", () =>
  \* D(Seq(T("import"), NT("TypeName"), T(";")))
  [name |-> <<83, 105, 110, 103, 108, 101, 84, 121, 112, 101, 73, 109, 112,
    111, 114, 116, 68, 101, 99, 108, 97, 114, 97, 116, 105, 111, 110>>,
   body |-> Call("D", <<Call("Seq", <<Call("T", <<StrLit(<<105, 109, 112, 111,
    114, 116>>)>>), Call("NT", <<StrLit(<<84, 121, 112, 101, 78, 97, 109,
    101>>)>>), Call("T", <<StrLit(<<59>>)>>)>>)>>)],
  \* lines 659-661: rules.set("TypeImportOnDemandDeclaration", () =>
  \* D(Seq(T("import"), NT("PackageOrTypeName"), T("."), T("*"), T(";")))
  [name |-> <<84, 121, 112, 101, 73, 109, 112, 111, 114, 116, 79, 110, 68, 101,
    109, 97, 110, 100, 68, 101, 99, 108, 97, 114, 97, 116, 105, 111, 110>>,
   body |-> Call("D", <<Call("Seq", <<Call("T", <<StrLit(<<105, 109, 112, 111,
    114, 116>>)>>), Call("NT", <<StrLit(<<80, 97, 99, 107, 97, 103, 101, 79,
    114, 84, 121, 112, 101, 78, 97, 109, 101>>)>>), Call("T",
    <<StrLit(<<46>>)>>), Call("T", <<StrLit(<<42>>)>>), Call("T",
    <<StrLit(<<59>>)>>)>>)>>)],
  \* lines 663-665: rules.set("SingleStaticImportDeclaration", () =>
  \* D(Seq(T("import"), T("static"), NT("TypeName"), T("."), NT("Identifier"),
  \* T(";")))
  [name |-> <<83, 105, 110, 103, 108, 101, 83, 116, 97, 116, 105, 99, 73, 109,
    112, 111, 114, 116, 68, 101, 99, 108, 97, 114, 97, 116, 105, 111, 110>>,
   body |-> Call("D", <<Call("Seq", <<Call("T", <<StrLit(<<105, 109, 112, 111,
    114, 116>>)>>), Call("T", <<StrLit(<<115, 116, 97, 116, 105, 99>>)>>),
    Call("NT", <<StrLit(<<84, 121, 112, 101, 78, 97, 109, 101>>)>>), Call("T",
    <<StrLit(<<46>>)>>), Call("NT", <<StrLit(<<73, 100, 101, 110, 116, 105,
    102, 105, 101, 114>>)>>), Call("T", <<StrLit(<<59>>)>>)>>)>>)],
  \* lines 667-669: rules.set("StaticImportOnDemandDeclaration", () =>
  \* D(Seq(T("import"), T("static"), NT("TypeName"), T("."), T("*"), T(";")))
  [name |-> <<83, 116, 97, 116, 105, 99, 73, 109, 112, 111, 114, 116, 79, 110,
    68, 101, 109, 97, 110, 100, 68, 101, 99, 108, 97, 114, 97, 116, 105, 111,
    110>>,
   body |-> Call("D", <<Call("Seq", <<Call("T", <<StrLit(<<105, 109, 112, 111,
    114, 116>>)>>), Call("T", <<StrLit(<<115, 116, 97, 116, 105, 99>>)>>),
    Call("NT", <<StrLit(<<84, 121, 112, 101, 78, 97, 109, 101>>)>>), Call("T",
    <<StrLit(<<46>>)>>), Call("T", <<StrLit(<<42>>)>>), Call("T",
    <<StrLit(<<59>>)>>)>>)>>)],
  \* lines 671-673: rules.set("SingleModuleImportDeclaration", () =>
  \* D(Seq(T("import"), T("module"), NT("ModuleName"), T(";")))
  [name |-> <<83, 105, 110, 103, 108, 101, 77, 111, 100, 117, 108, 101, 73,
    109, 112, 111, 114, 116, 68, 101, 99, 108, 97, 114, 97, 116, 105, 111,
    110>>,
   body |-> Call("D", <<Call("Seq", <<Call("T", <<StrLit(<<105, 109, 112, 111,
    114, 116>>)>>), Call("T", <<StrLit(<<109, 111, 100, 117, 108, 101>>)>>),
    Call("NT", <<StrLit(<<77, 111, 100, 117, 108, 101, 78, 97, 109, 101>>)>>),
    Call("T", <<StrLit(<<59>>)>>)>>)>>)],
  \* lines 675-677: rules.set("TopLevelClassOrInterfaceDeclaration", () =>
  \* D(Ch(0, NT("ClassDeclaration"), NT("InterfaceDeclaration"), T(";")))
  [name |-> <<84, 111, 112, 76, 101, 118, 101, 108, 67, 108, 97, 115, 115, 79,
    114, 73, 110, 116, 101, 114, 102, 97, 99, 101, 68, 101, 99, 108, 97, 114,
    97, 116, 105, 111, 110>>,
   body |-> Call("D", <<Call("Ch", <<NumLit(0), Call("NT", <<StrLit(<<67, 108,
    97, 115, 115, 68, 101, 99, 108, 97, 114, 97, 116, 105, 111, 110>>)>>),
    Call("NT", <<StrLit(<<73, 110, 116, 101, 114, 102, 97, 99, 101, 68, 101,
    99, 108, 97, 114, 97, 116, 105, 111, 110>>)>>), Call("T",
    <<StrLit(<<59>>)>>)>>)>>)],
  \* lines 679-692: rules.set("ModuleDeclaration", () =>
  \* D(Seq(ZOM(NT("Annotation")), Opt(T("open")), T("module"), NT("Identifier"
  \* ), ZOM(Seq(T("."), NT("Identifier"))), T("{"), ZOM(NT("ModuleDirective")
  \* ), T("}")))
  [name |-> <<77, 111, 100, 117, 108, 101, 68, 101, 99, 108, 97, 114, 97, 116,
    105, 111, 110>>,
   body |-> Call("D", <<Call("Seq", <<Call("ZOM", <<Call("NT", <<StrLit(<<65,
    110, 110, 111, 116, 97, 116, 105, 111, 110>>)>>)>>), Call("Opt",
    <<Call("T", <<StrLit(<<111, 112, 101, 110>>)>>)>>), Call("T",
    <<StrLit(<<109, 111, 100, 117, 108, 101>>)>>), Call("NT", <<StrLit(<<73,
    100, 101, 110, 116, 105, 102, 105, 101, 114>>)>>), Call("ZOM",
    <<Call("Seq", <<Call("T", <<StrLit(<<46>>)>>), Call("NT", <<StrLit(<<73,
    100, 101, 110, 116, 105, 102, 105, 101, 114>>)>>)>>)>>), Call("T",
    <<StrLit(<<123>>)>>), Call("ZOM", <<Call("NT", <<StrLit(<<77, 111, 100,
    117, 108, 101, 68, 105, 114, 101, 99, 116, 105, 118, 101>>)>>)>>),
    Call("T", <<StrLit(<<125>>)>>)>>)>>)],
  \* lines 694-704: rules.set("ModuleDirective", () =>
  \* D(Ch(0, Seq(T("requires"), ZOM(NT("RequiresModifier")), NT("ModuleName"),
  \* T(";")), Seq(T("exports"), NT("PackageName"), Opt(Seq(T("to"), NT(
  \* "ModuleName"), ZOM(Seq(T(","), NT("ModuleName"))))), T(";")), Seq(T(
  \* "opens"), NT("PackageName"), Opt(Seq(T("to"), NT("ModuleName"), ZOM(Seq(
  \* T(","), NT("ModuleName"))))), T(";")), Seq(T("uses"), NT("TypeName"), T(
  \* ";")), Seq(T("provides"), NT("TypeName"), T("with"), NT("TypeName"), ZOM(
  \* Seq(T(","), NT("TypeName"))), T(";"))))
  [name |-> <<77, 111, 100, 117, 108, 101, 68, 105, 114, 101, 99, 116, 105,
    118, 101>>,
   body |-> Call("D", <<Call("Ch", <<NumLit(0), Call("Seq", <<Call("T",
    <<StrLit(<<114, 101, 113, 117, 105, 114, 101, 115>>)>>), Call("ZOM",
    <<Call("NT", <<StrLit(<<82, 101, 113, 117, 105, 114, 101, 115, 77, 111,
    100, 105, 102, 105, 101, 114>>)>>)>>), Call("NT", <<StrLit(<<77, 111, 100,
    117, 108, 101, 78, 97, 109, 101>>)>>), Call("T", <<StrLit(<<59>>)>>)>>),
    Call("Seq", <<Call("T", <<StrLit(<<101, 120, 112, 111, 114, 116, 115>>)>>),
    Call("NT", <<StrLit(<<80, 97, 99, 107, 97, 103, 101, 78, 97, 109,
    101>>)>>), Call("Opt", <<Call("Seq", <<Call("T", <<StrLit(<<116, 111>>)>>),
    Call("NT", <<StrLit(<<77, 111, 100, 117, 108, 101, 78, 97, 109, 101>>)>>),
    Call("ZOM", <<Call("Seq", <<Call("T", <<StrLit(<<44>>)>>), Call("NT",
    <<StrLit(<<77, 111, 100, 117, 108, 101, 78, 97, 109, 101>>)>>)>>)>>)>>)>>),
    Call("T", <<StrLit(<<59>>)>>)>>), Call("Seq", <<Call("T", <<StrLit(<<111,
    112, 101, 110, 115>>)>>), Call("NT", <<StrLit(<<80, 97, 99, 107, 97, 103,
    101, 78, 97, 109, 101>>)>>), Call("Opt", <<Call("Seq", <<Call("T",
    <<StrLit(<<116, 111>>)>>), Call("NT", <<StrLit(<<77, 111, 100, 117, 108,
    101, 78, 97, 109, 101>>)>>), Call("ZOM", <<Call("Seq", <<Call("T",
    <<StrLit(<<44>>)>>), Call("NT", <<StrLit(<<77, 111, 100, 117, 108, 101, 78,
    97, 109, 101>>)>>)>>)>>)>>)>>), Call("T", <<StrLit(<<59>>)>>)>>),
    Call("Seq", <<Call("T", <<StrLit(<<117, 115, 101, 115>>)>>), Call("NT",
    <<StrLit(<<84, 121, 112, 101, 78, 97, 109, 101>>)>>), Call("T",
    <<StrLit(<<59>>)>>)>>), Call("Seq", <<Call("T", <<StrLit(<<112, 114, 111,
    118, 105, 100, 101, 115>>)>>), Call("NT", <<StrLit(<<84, 121, 112, 101, 78,
    97, 109, 101>>)>>), Call("T", <<StrLit(<<119, 105, 116, 104>>)>>),
    Call("NT", <<StrLit(<<84, 121, 112, 101, 78, 97, 109, 101>>)>>),
    Call("ZOM", <<Call("Seq", <<Call("T", <<StrLit(<<44>>)>>), Call("NT",
    <<StrLit(<<84, 121, 112, 101, 78, 97, 109, 101>>)>>)>>)>>), Call("T",
    <<StrLit(<<59>>)>>)>>)>>)>>)],
  \* lines 706-708: rules.set("RequiresModifier", () =>
  \* D(Ch(0, T("transitive"), T("static")))
  [name |-> <<82, 101, 113, 117, 105, 114, 101, 115, 77, 111, 100, 105, 102,
    105, 101, 114>>,
   body |-> Call("D", <<Call("Ch", <<NumLit(0), Call("T", <<StrLit(<<116, 114,
    97, 110, 115, 105, 116, 105, 118, 101>>)>>), Call("T", <<StrLit(<<115, 116,
    97, 116, 105, 99>>)>>)>>)>>)],
  \* lines 714-716: rules.set("ClassDeclaration", () =>
  \* D(Ch(0, NT("NormalClassDeclaration"), NT("EnumDeclaration"), NT(
  \* "RecordDeclaration")))
  [name |-> <<67, 108, 97, 115, 115, 68, 101, 99, 108, 97, 114, 97, 116, 105,
    111, 110>>,
   body |-> Call("D", <<Call("Ch", <<NumLit(0), Call("NT", <<StrLit(<<78, 111,
    114, 109, 97, 108, 67, 108, 97, 115, 115, 68, 101, 99, 108, 97, 114, 97,
    116, 105, 111, 110>>)>>), Call("NT", <<StrLit(<<69, 110, 117, 109, 68, 101,
    99, 108, 97, 114, 97, 116, 105, 111, 110>>)>>), Call("NT", <<StrLit(<<82,
    101, 99, 111, 114, 100, 68, 101, 99, 108, 97, 114, 97, 116, 105, 111,
    110>>)>>)>>)>>)],
  \* lines 718-731: rules.set("NormalClassDeclaration", () =>
  \* D(Seq(ZOM(NT("ClassModifier")), T("class"), NT("TypeIdentifier"), Opt(NT(
  \* "TypeParameters")), Opt(NT("ClassExtends")), Opt(NT("ClassImplements")),
  \* Opt(NT("ClassPermits")), NT("ClassBody")))
  [name |-> <<78, 111, 114, 109, 97, 108, 67, 108, 97, 115, 115, 68, 101, 99,
    108, 97, 114, 97, 116, 105, 111, 110>>,
   body |-> Call("D", <<Call("Seq", <<Call("ZOM", <<Call("NT", <<StrLit(<<67,
    108, 97, 115, 115, 77, 111, 100, 105, 102, 105, 101, 114>>)>>)>>),
    Call("T", <<StrLit(<<99, 108, 97, 115, 115>>)>>), Call("NT", <<StrLit(<<84,
    121, 112, 101, 73, 100, 101, 110, 116, 105, 102, 105, 101, 114>>)>>),
    Call("Opt", <<Call("NT", <<StrLit(<<84, 121, 112, 101, 80, 97, 114, 97,
    109, 101, 116, 101, 114, 115>>)>>)>>), Call("Opt", <<Call("NT",
    <<StrLit(<<67, 108, 97, 115, 115, 69, 120, 116, 101, 110, 100,
    115>>)>>)>>), Call("Opt", <<Call("NT", <<StrLit(<<67, 108, 97, 115, 115,
    73, 109, 112, 108, 101, 109, 101, 110, 116, 115>>)>>)>>), Call("Opt",
    <<Call("NT", <<StrLit(<<67, 108, 97, 115, 115, 80, 101, 114, 109, 105, 116,
    115>>)>>)>>), Call("NT", <<StrLit(<<67, 108, 97, 115, 115, 66, 111, 100,
    121>>)>>)>>)>>)],
  \* lines 733-748: rules.set("ClassModifier", () =>
  \* D(Ch(0, NT("Annotation"), T("public"), T("protected"), T("private"), T(
  \* "abstract"), T("static"), T("final"), T("sealed"), T("non-sealed"), T(
  \* "strictfp")))
  [name |-> <<67, 108, 97, 115, 115, 77, 111, 100, 105, 102, 105, 101, 114>>,
   body |-> Call("D", <<Call("Ch", <<NumLit(0), Call("NT", <<StrLit(<<65, 110,
    110, 111, 116, 97, 116, 105, 111, 110>>)>>), Call("T", <<StrLit(<<112, 117,
    98, 108, 105, 99>>)>>), Call("T", <<StrLit(<<112, 114, 111, 116, 101, 99,
    116, 101, 100>>)>>), Call("T", <<StrLit(<<112, 114, 105, 118, 97, 116,
    101>>)>>), Call("T", <<StrLit(<<97, 98, 115, 116, 114, 97, 99, 116>>)>>),
    Call("T", <<StrLit(<<115, 116, 97, 116, 105, 99>>)>>), Call("T",
    <<StrLit(<<102, 105, 110, 97, 108>>)>>), Call("T", <<StrLit(<<115, 101, 97,
    108, 101, 100>>)>>), Call("T", <<StrLit(<<110, 111, 110, 45, 115, 101, 97,
    108, 101, 100>>)>>), Call("T", <<StrLit(<<115, 116, 114, 105, 99, 116, 102,
    112>>)>>)>>)>>)],
  \* lines 750-752: rules.set("TypeParameters", () =>
  \* D(Seq(T("<"), NT("TypeParameterList"), T(">")))
  [name |-> <<84, 121, 112, 101, 80, 97, 114, 97, 109, 101, 116, 101, 114,
    115>>,
   body |-> Call("D", <<Call("Seq", <<Call("T", <<StrLit(<<60>>)>>), Call("NT",
    <<StrLit(<<84, 121, 112, 101, 80, 97, 114, 97, 109, 101, 116, 101, 114, 76,
    105, 115, 116>>)>>), Call("T", <<StrLit(<<62>>)>>)>>)>>)],
  \* lines 754-756: rules.set("TypeParameterList", () =>
  \* D(Seq(NT("TypeParameter"), ZOM(Seq(T(","), NT("TypeParameter")))))
  [name |-> <<84, 121, 112, 101, 80, 97, 114, 97, 109, 101, 116, 101, 114, 76,
    105, 115, 116>>,
   body |-> Call("D", <<Call("Seq", <<Call("NT", <<StrLit(<<84, 121, 112, 101,
    80, 97, 114, 97, 109, 101, 116, 101, 114>>)>>), Call("ZOM", <<Call("Seq",
    <<Call("T", <<StrLit(<<44>>)>>), Call("NT", <<StrLit(<<84, 121, 112, 101,
    80, 97, 114, 97, 109, 101, 116, 101, 114>>)>>)>>)>>)>>)>>)],
  \* lines 758-760: rules.set("ClassExtends", () =>
  \* D(Seq(T("extends"), NT("ClassType")))
  [name |-> <<67, 108, 97, 115, 115, 69, 120, 116, 101, 110, 100, 115>>,
   body |-> Call("D", <<Call("Seq", <<Call("T", <<StrLit(<<101, 120, 116, 101,
    110, 100, 115>>)>>), Call("NT", <<StrLit(<<67, 108, 97, 115, 115, 84, 121,
    112, 101>>)>>)>>)>>)],
  \* lines 762-764: rules.set("ClassImplements", () =>
  \* D(Seq(T("implements"), NT("InterfaceTypeList")))
  [name |-> <<67, 108, 97, 115, 115, 73, 109, 112, 108, 101, 109, 101, 110,
    116, 115>>,
   body |-> Call("D", <<Call("Seq", <<Call("T", <<StrLit(<<105, 109, 112, 108,
    101, 109, 101, 110, 116, 115>>)>>), Call("NT", <<StrLit(<<73, 110, 116,
    101, 114, 102, 97, 99, 101, 84, 121, 112, 101, 76, 105, 115,
    116>>)>>)>>)>>)],
  \* lines 766-768: rules.set("InterfaceTypeList", () =>
  \* D(Seq(NT("InterfaceType"), ZOM(Seq(T(","), NT("InterfaceType")))))
  [name |-> <<73, 110, 116, 101, 114, 102, 97, 99, 101, 84, 121, 112, 101, 76,
    105, 115, 116>>,
   body |-> Call("D", <<Call("Seq", <<Call("NT", <<StrLit(<<73, 110, 116, 101,
    114, 102, 97, 99, 101, 84, 121, 112, 101>>)>>), Call("ZOM", <<Call("Seq",
    <<Call("T", <<StrLit(<<44>>)>>), Call("NT", <<StrLit(<<73, 110, 116, 101,
    114, 102, 97, 99, 101, 84, 121, 112, 101>>)>>)>>)>>)>>)>>)],
  \* lines 770-772: rules.set("ClassPermits", () =>
  \* D(Seq(T("permits"), NT("TypeName"), ZOM(Seq(T(","), NT("TypeName")))))
  [name |-> <<67, 108, 97, 115, 115, 80, 101, 114, 109, 105, 116, 115>>,
   body |-> Call("D", <<Call("Seq", <<Call("T", <<StrLit(<<112, 101, 114, 109,
    105, 116, 115>>)>>), Call("NT", <<StrLit(<<84, 121, 112, 101, 78, 97, 109,
    101>>)>>), Call("ZOM", <<Call("Seq", <<Call("T", <<StrLit(<<44>>)>>),
    Call("NT", <<StrLit(<<84, 121, 112, 101, 78, 97, 109,
    101>>)>>)>>)>>)>>)>>)],
  \* lines 774-776: rules.set("ClassBody", () =>
  \* D(Seq(T("{"), ZOM(NT("ClassBodyDeclaration")), T("}")))
  [name |-> <<67, 108, 97, 115, 115, 66, 111, 100, 121>>,
   body |-> Call("D", <<Call("Seq", <<Call("T", <<StrLit(<<123>>)>>),
    Call("ZOM", <<Call("NT", <<StrLit(<<67, 108, 97, 115, 115, 66, 111, 100,
    121, 68, 101, 99, 108, 97, 114, 97, 116, 105, 111, 110>>)>>)>>), Call("T",
    <<StrLit(<<125>>)>>)>>)>>)],
  \* lines 778-787: rules.set("ClassBodyDeclaration", () =>
  \* D(Ch(0, NT("ClassMemberDeclaration"), NT("InstanceInitializer"), NT(
  \* "StaticInitializer"), NT("ConstructorDeclaration")))
  [name |-> <<67, 108, 97, 115, 115, 66, 111, 100, 121, 68, 101, 99, 108, 97,
    114, 97, 116, 105, 111, 110>>,
   body |-> Call("D", <<Call("Ch", <<NumLit(0), Call("NT", <<StrLit(<<67, 108,
    97, 115, 115, 77, 101, 109, 98, 101, 114, 68, 101, 99, 108, 97, 114, 97,
    116, 105, 111, 110>>)>>), Call("NT", <<StrLit(<<73, 110, 115, 116, 97, 110,
    99, 101, 73, 110, 105, 116, 105, 97, 108, 105, 122, 101, 114>>)>>),
    Call("NT", <<StrLit(<<83, 116, 97, 116, 105, 99, 73, 110, 105, 116, 105,
    97, 108, 105, 122, 101, 114>>)>>), Call("NT", <<StrLit(<<67, 111, 110, 115,
    116, 114, 117, 99, 116, 111, 114, 68, 101, 99, 108, 97, 114, 97, 116, 105,
    111, 110>>)>>)>>)>>)],
  \* lines 789-799: rules.set("ClassMemberDeclaration", () =>
  \* D(Ch(0, NT("FieldDeclaration"), NT("MethodDeclaration"), NT(
  \* "ClassDeclaration"), NT("InterfaceDeclaration"), T(";")))
  [name |-> <<67, 108, 97, 115, 115, 77, 101, 109, 98, 101, 114, 68, 101, 99,
    108, 97, 114, 97, 116, 105, 111, 110>>,
   body |-> Call("D", <<Call("Ch", <<NumLit(0), Call("NT", <<StrLit(<<70, 105,
    101, 108, 100, 68, 101, 99, 108, 97, 114, 97, 116, 105, 111, 110>>)>>),
    Call("NT", <<StrLit(<<77, 101, 116, 104, 111, 100, 68, 101, 99, 108, 97,
    114, 97, 116, 105, 111, 110>>)>>), Call("NT", <<StrLit(<<67, 108, 97, 115,
    115, 68, 101, 99, 108, 97, 114, 97, 116, 105, 111, 110>>)>>), Call("NT",
    <<StrLit(<<73, 110, 116, 101, 114, 102, 97, 99, 101, 68, 101, 99, 108, 97,
    114, 97, 116, 105, 111, 110>>)>>), Call("T", <<StrLit(<<59>>)>>)>>)>>)],
  \* lines 801-803: rules.set("FieldDeclaration", () =>
  \* D(Seq(ZOM(NT("FieldModifier")), NT("UnannType"), NT(
  \* "VariableDeclaratorList"), T(";")))
  [name |-> <<70, 105, 101, 108, 100, 68, 101, 99, 108, 97, 114, 97, 116, 105,
    111, 110>>,
   body |-> Call("D", <<Call("Seq", <<Call("ZOM", <<Call("NT", <<StrLit(<<70,
    105, 101, 108, 100, 77, 111, 100, 105, 102, 105, 101, 114>>)>>)>>),
    Call("NT", <<StrLit(<<85, 110, 97, 110, 110, 84, 121, 112, 101>>)>>),
    Call("NT", <<StrLit(<<86, 97, 114, 105, 97, 98, 108, 101, 68, 101, 99, 108,
    97, 114, 97, 116, 111, 114, 76, 105, 115, 116>>)>>), Call("T",
    <<StrLit(<<59>>)>>)>>)>>)],
  \* lines 805-818: rules.set("FieldModifier", () =>
  \* D(Ch(0, NT("Annotation"), T("public"), T("protected"), T("private"), T(
  \* "static"), T("final"), T("transient"), T("volatile")))
  [name |-> <<70, 105, 101, 108, 100, 77, 111, 100, 105, 102, 105, 101, 114>>,
   body |-> Call("D", <<Call("Ch", <<NumLit(0), Call("NT", <<StrLit(<<65, 110,
    110, 111, 116, 97, 116, 105, 111, 110>>)>>), Call("T", <<StrLit(<<112, 117,
    98, 108, 105, 99>>)>>), Call("T", <<StrLit(<<112, 114, 111, 116, 101, 99,
    116, 101, 100>>)>>), Call("T", <<StrLit(<<112, 114, 105, 118, 97, 116,
    101>>)>>), Call("T", <<StrLit(<<115, 116, 97, 116, 105, 99>>)>>), Call("T",
    <<StrLit(<<102, 105, 110, 97, 108>>)>>), Call("T", <<StrLit(<<116, 114, 97,
    110, 115, 105, 101, 110, 116>>)>>), Call("T", <<StrLit(<<118, 111, 108, 97,
    116, 105, 108, 101>>)>>)>>)>>)],
  \* lines 820-822: rules.set("VariableDeclaratorList", () =>
  \* D(Seq(NT("VariableDeclarator"), ZOM(Seq(T(","), NT("VariableDeclarator"))
  \* )))
  [name |-> <<86, 97, 114, 105, 97, 98, 108, 101, 68, 101, 99, 108, 97, 114,
    97, 116, 111, 114, 76, 105, 115, 116>>,
   body |-> Call("D", <<Call("Seq", <<Call("NT", <<StrLit(<<86, 97, 114, 105,
    97, 98, 108, 101, 68, 101, 99, 108, 97, 114, 97, 116, 111, 114>>)>>),
    Call("ZOM", <<Call("Seq", <<Call("T", <<StrLit(<<44>>)>>), Call("NT",
    <<StrLit(<<86, 97, 114, 105, 97, 98, 108, 101, 68, 101, 99, 108, 97, 114,
    97, 116, 111, 114>>)>>)>>)>>)>>)>>)],
  \* lines 824-826: rules.set("VariableDeclarator", () =>
  \* D(Seq(NT("VariableDeclaratorId"), Opt(Seq(T("="), NT(
  \* "VariableInitializer")))))
  [name |-> <<86, 97, 114, 105, 97, 98, 108, 101, 68, 101, 99, 108, 97, 114,
    97, 116, 111, 114>>,
   body |-> Call("D", <<Call("Seq", <<Call("NT", <<StrLit(<<86, 97, 114, 105,
    97, 98, 108, 101, 68, 101, 99, 108, 97, 114, 97, 116, 111, 114, 73,
    100>>)>>), Call("Opt", <<Call("Seq", <<Call("T", <<StrLit(<<61>>)>>),
    Call("NT", <<StrLit(<<86, 97, 114, 105, 97, 98, 108, 101, 73, 110, 105,
    116, 105, 97, 108, 105, 122, 101, 114>>)>>)>>)>>)>>)>>)],
  \* lines 828-830: rules.set("VariableDeclaratorId", () =>
  \* D(Ch(0, Seq(NT("Identifier"), Opt(NT("Dims"))), T("_")))
  [name |-> <<86, 97, 114, 105, 97, 98, 108, 101, 68, 101, 99, 108, 97, 114,
    97, 116, 111, 114, 73, 100>>,
   body |-> Call("D", <<Call("Ch", <<NumLit(0), Call("Seq", <<Call("NT",
    <<StrLit(<<73, 100, 101, 110, 116, 105, 102, 105, 101, 114>>)>>),
    Call("Opt", <<Call("NT", <<StrLit(<<68, 105, 109, 115>>)>>)>>)>>),
    Call("T", <<StrLit(<<95>>)>>)>>)>>)],
  \* lines 832-834: rules.set("VariableInitializer", () =>
  \* D(Ch(0, NT("Expression"), NT("ArrayInitializer")))
  [name |-> <<86, 97, 114, 105, 97, 98, 108, 101, 73, 110, 105, 116, 105, 97,
    108, 105, 122, 101, 114>>,
   body |-> Call("D", <<Call("Ch", <<NumLit(0), Call("NT", <<StrLit(<<69, 120,
    112, 114, 101, 115, 115, 105, 111, 110>>)>>), Call("NT", <<StrLit(<<65,
    114, 114, 97, 121, 73, 110, 105, 116, 105, 97, 108, 105, 122, 101,
    114>>)>>)>>)>>)],
  \* lines 836-838: rules.set("UnannType", () =>
  \* D(Ch(0, NT("UnannPrimitiveType"), NT("UnannReferenceType")))
  [name |-> <<85, 110, 97, 110, 110, 84, 121, 112, 101>>,
   body |-> Call("D", <<Call("Ch", <<NumLit(0), Call("NT", <<StrLit(<<85, 110,
    97, 110, 110, 80, 114, 105, 109, 105, 116, 105, 118, 101, 84, 121, 112,
    101>>)>>), Call("NT", <<StrLit(<<85, 110, 97, 110, 110, 82, 101, 102, 101,
    114, 101, 110, 99, 101, 84, 121, 112, 101>>)>>)>>)>>)],
  \* lines 840-842: rules.set("UnannPrimitiveType", () =>
  \* D(Ch(0, NT("NumericType"), T("boolean")))
  [name |-> <<85, 110, 97, 110, 110, 80, 114, 105, 109, 105, 116, 105, 118,
    101, 84, 121, 112, 101>>,
   body |-> Call("D", <<Call("Ch", <<NumLit(0), Call("NT", <<StrLit(<<78, 117,
    109, 101, 114, 105, 99, 84, 121, 112, 101>>)>>), Call("T", <<StrLit(<<98,
    111, 111, 108, 101, 97, 110>>)>>)>>)>>)],
  \* lines 844-846: rules.set("UnannReferenceType", () =>
  \* D(Ch(0, NT("UnannClassOrInterfaceType"), NT("UnannTypeVariable"), NT(
  \* "UnannArrayType")))
  [name |-> <<85, 110, 97, 110, 110, 82, 101, 102, 101, 114, 101, 110, 99, 101,
    84, 121, 112, 101>>,
   body |-> Call("D", <<Call("Ch", <<NumLit(0), Call("NT", <<StrLit(<<85, 110,
    97, 110, 110, 67, 108, 97, 115, 115, 79, 114, 73, 110, 116, 101, 114, 102,
    97, 99, 101, 84, 121, 112, 101>>)>>), Call("NT", <<StrLit(<<85, 110, 97,
    110, 110, 84, 121, 112, 101, 86, 97, 114, 105, 97, 98, 108, 101>>)>>),
    Call("NT", <<StrLit(<<85, 110, 97, 110, 110, 65, 114, 114, 97, 121, 84,
    121, 112, 101>>)>>)>>)>>)],
  \* lines 848-850: rules.set("UnannClassOrInterfaceType", () =>
  \* D(Ch(0, NT("UnannClassType"), NT("UnannInterfaceType")))
  [name |-> <<85, 110, 97, 110, 110, 67, 108, 97, 115, 115, 79, 114, 73, 110,
    116, 101, 114, 102, 97, 99, 101, 84, 121, 112, 101>>,
   body |-> Call("D", <<Call("Ch", <<NumLit(0), Call("NT", <<StrLit(<<85, 110,
    97, 110, 110, 67, 108, 97, 115, 115, 84, 121, 112, 101>>)>>), Call("NT",
    <<StrLit(<<85, 110, 97, 110, 110, 73, 110, 116, 101, 114, 102, 97, 99, 101,
    84, 121, 112, 101>>)>>)>>)>>)],
  \* lines 852-860: rules.set("UnannClassType", () =>
  \* D(Ch(0, Seq(NT("TypeIdentifier"), Opt(NT("TypeArguments"))), Seq(NT(
  \* "PackageName"), T("."), ZOM(NT("Annotation")), NT("TypeIdentifier"), Opt(
  \* NT("TypeArguments"))), Seq(NT("UnannClassOrInterfaceType"), T("."), ZOM(
  \* NT("Annotation")), NT("TypeIdentifier"), Opt(NT("TypeArguments")))))
  [name |-> <<85, 110, 97, 110, 110, 67, 108, 97, 115, 115, 84, 121, 112,
    101>>,
   body |-> Call("D", <<Call("Ch", <<NumLit(0), Call("Seq", <<Call("NT",
    <<StrLit(<<84, 121, 112, 101, 73, 100, 101, 110, 116, 105, 102, 105, 101,
    114>>)>>), Call("Opt", <<Call("NT", <<StrLit(<<84, 121, 112, 101, 65, 114,
    103, 117, 109, 101, 110, 116, 115>>)>>)>>)>>), Call("Seq", <<Call("NT",
    <<StrLit(<<80, 97, 99, 107, 97, 103, 101, 78, 97, 109, 101>>)>>), Call("T",
    <<StrLit(<<46>>)>>), Call("ZOM", <<Call("NT", <<StrLit(<<65, 110, 110, 111,
    116, 97, 116, 105, 111, 110>>)>>)>>), Call("NT", <<StrLit(<<84, 121, 112,
    101, 73, 100, 101, 110, 116, 105, 102, 105, 101, 114>>)>>), Call("Opt",
    <<Call("NT", <<StrLit(<<84, 121, 112, 101, 65, 114, 103, 117, 109, 101,
    110, 116, 115>>)>>)>>)>>), Call("Seq", <<Call("NT", <<StrLit(<<85, 110, 97,
    110, 110, 67, 108, 97, 115, 115, 79, 114, 73, 110, 116, 101, 114, 102, 97,
    99, 101, 84, 121, 112, 101>>)>>), Call("T", <<StrLit(<<46>>)>>),
    Call("ZOM", <<Call("NT", <<StrLit(<<65, 110, 110, 111, 116, 97, 116, 105,
    111, 110>>)>>)>>), Call("NT", <<StrLit(<<84, 121, 112, 101, 73, 100, 101,
    110, 116, 105, 102, 105, 101, 114>>)>>), Call("Opt", <<Call("NT",
    <<StrLit(<<84, 121, 112, 101, 65, 114, 103, 117, 109, 101, 110, 116,
    115>>)>>)>>)>>)>>)>>)],
  \* lines 862-864: rules.set("UnannInterfaceType", () =>
  \* D(NT("UnannClassType"))
  [name |-> <<85, 110, 97, 110, 110, 73, 110, 116, 101, 114, 102, 97, 99, 101,
    84, 121, 112, 101>>,
   body |-> Call("D", <<Call("NT", <<StrLit(<<85, 110, 97, 110, 110, 67, 108,
    97, 115, 115, 84, 121, 112, 101>>)>>)>>)],
  \* lines 866-868: rules.set("UnannTypeVariable", () =>
  \* D(NT("TypeIdentifier"))
  [name |-> <<85, 110, 97, 110, 110, 84, 121, 112, 101, 86, 97, 114, 105, 97,
    98, 108, 101>>,
   body |-> Call("D", <<Call("NT", <<StrLit(<<84, 121, 112, 101, 73, 100, 101,
    110, 116, 105, 102, 105, 101, 114>>)>>)>>)],
  \* lines 870-878: rules.set("UnannArrayType", () =>
  \* D(Ch(0, Seq(NT("UnannPrimitiveType"), NT("Dims")), Seq(NT(
  \* "UnannClassOrInterfaceType"), NT("Dims")), Seq(NT("UnannTypeVariable"),
  \* NT("Dims"))))
  [name |-> <<85, 110, 97, 110, 110, 65, 114, 114, 97, 121, 84, 121, 112,
    101>>,
   body |-> Call("D", <<Call("Ch", <<NumLit(0), Call("Seq", <<Call("NT",
    <<StrLit(<<85, 110, 97, 110, 110, 80, 114, 105, 109, 105, 116, 105, 118,
    101, 84, 121, 112, 101>>)>>), Call("NT", <<StrLit(<<68, 105, 109,
    115>>)>>)>>), Call("Seq", <<Call("NT", <<StrLit(<<85, 110, 97, 110, 110,
    67, 108, 97, 115, 115, 79, 114, 73, 110, 116, 101, 114, 102, 97, 99, 101,
    84, 121, 112, 101>>)>>), Call("NT", <<StrLit(<<68, 105, 109, 115>>)>>)>>),
    Call("Seq", <<Call("NT", <<StrLit(<<85, 110, 97, 110, 110, 84, 121, 112,
    101, 86, 97, 114, 105, 97, 98, 108, 101>>)>>), Call("NT", <<StrLit(<<68,
    105, 109, 115>>)>>)>>)>>)>>)],
  \* lines 880-882: rules.set("MethodDeclaration", () =>
  \* D(Seq(ZOM(NT("MethodModifier")), NT("MethodHeader"), NT("MethodBody")))
  [name |-> <<77, 101, 116, 104, 111, 100, 68, 101, 99, 108, 97, 114, 97, 116,
    105, 111, 110>>,
   body |-> Call("D", <<Call("Seq", <<Call("ZOM", <<Call("NT", <<StrLit(<<77,
    101, 116, 104, 111, 100, 77, 111, 100, 105, 102, 105, 101, 114>>)>>)>>),
    Call("NT", <<StrLit(<<77, 101, 116, 104, 111, 100, 72, 101, 97, 100, 101,
    114>>)>>), Call("NT", <<StrLit(<<77, 101, 116, 104, 111, 100, 66, 111, 100,
    121>>)>>)>>)>>)],
  \* lines 884-899: rules.set("MethodModifier", () =>
  \* D(Ch(0, NT("Annotation"), T("public"), T("protected"), T("private"), T(
  \* "abstract"), T("static"), T("final"), T("synchronized"), T("native"), T(
  \* "strictfp")))
  [name |-> <<77, 101, 116, 104, 111, 100, 77, 111, 100, 105, 102, 105, 101,
    114>>,
   body |-> Call("D", <<Call("Ch", <<NumLit(0), Call("NT", <<StrLit(<<65, 110,
    110, 111, 116, 97, 116, 105, 111, 110>>)>>), Call("T", <<StrLit(<<112, 117,
    98, 108, 105, 99>>)>>), Call("T", <<StrLit(<<112, 114, 111, 116, 101, 99,
    116, 101, 100>>)>>), Call("T", <<StrLit(<<112, 114, 105, 118, 97, 116,
    101>>)>>), Call("T", <<StrLit(<<97, 98, 115, 116, 114, 97, 99, 116>>)>>),
    Call("T", <<StrLit(<<115, 116, 97, 116, 105, 99>>)>>), Call("T",
    <<StrLit(<<102, 105, 110, 97, 108>>)>>), Call("T", <<StrLit(<<115, 121,
    110, 99, 104, 114, 111, 110, 105, 122, 101, 100>>)>>), Call("T",
    <<StrLit(<<110, 97, 116, 105, 118, 101>>)>>), Call("T", <<StrLit(<<115,
    116, 114, 105, 99, 116, 102, 112>>)>>)>>)>>)],
  \* lines 901-908: rules.set("MethodHeader", () =>
  \* D(Ch(0, Seq(NT("Result"), NT("MethodDeclarator"), Opt(NT("Throws"))),
  \* Seq(NT("TypeParameters"), ZOM(NT("Annotation")), NT("Result"), NT(
  \* "MethodDeclarator"), Opt(NT("Throws")))))
  [name |-> <<77, 101, 116, 104, 111, 100, 72, 101, 97, 100, 101, 114>>,
   body |-> Call("D", <<Call("Ch", <<NumLit(0), Call("Seq", <<Call("NT",
    <<StrLit(<<82, 101, 115, 117, 108, 116>>)>>), Call("NT", <<StrLit(<<77,
    101, 116, 104, 111, 100, 68, 101, 99, 108, 97, 114, 97, 116, 111,
    114>>)>>), Call("Opt", <<Call("NT", <<StrLit(<<84, 104, 114, 111, 119,
    115>>)>>)>>)>>), Call("Seq", <<Call("NT", <<StrLit(<<84, 121, 112, 101, 80,
    97, 114, 97, 109, 101, 116, 101, 114, 115>>)>>), Call("ZOM", <<Call("NT",
    <<StrLit(<<65, 110, 110, 111, 116, 97, 116, 105, 111, 110>>)>>)>>),
    Call("NT", <<StrLit(<<82, 101, 115, 117, 108, 116>>)>>), Call("NT",
    <<StrLit(<<77, 101, 116, 104, 111, 100, 68, 101, 99, 108, 97, 114, 97, 116,
    111, 114>>)>>), Call("Opt", <<Call("NT", <<StrLit(<<84, 104, 114, 111, 119,
    115>>)>>)>>)>>)>>)>>)],
  \* lines 910-912: rules.set("Result", () =>
  \* D(Ch(0, NT("UnannType"), T("void")))
  [name |-> <<82, 101, 115, 117, 108, 116>>,
   body |-> Call("D", <<Call("Ch", <<NumLit(0), Call("NT", <<StrLit(<<85, 110,
    97, 110, 110, 84, 121, 112, 101>>)>>), Call("T", <<StrLit(<<118, 111, 105,
    100>>)>>)>>)>>)],
  \* lines 914-925: rules.set("MethodDeclarator", () =>
  \* D(Seq(NT("Identifier"), T("("), Opt(Seq(NT("ReceiverParameter"), T(","))
  \* ), Opt(NT("FormalParameterList")), T(")"), Opt(NT("Dims"))))
  [name |-> <<77, 101, 116, 104, 111, 100, 68, 101, 99, 108, 97, 114, 97, 116,
    111, 114>>,
   body |-> Call("D", <<Call("Seq", <<Call("NT", <<StrLit(<<73, 100, 101, 110,
    116, 105, 102, 105, 101, 114>>)>>), Call("T", <<StrLit(<<40>>)>>),
    Call("Opt", <<Call("Seq", <<Call("NT", <<StrLit(<<82, 101, 99, 101, 105,
    118, 101, 114, 80, 97, 114, 97, 109, 101, 116, 101, 114>>)>>), Call("T",
    <<StrLit(<<44>>)>>)>>)>>), Call("Opt", <<Call("NT", <<StrLit(<<70, 111,
    114, 109, 97, 108, 80, 97, 114, 97, 109, 101, 116, 101, 114, 76, 105, 115,
    116>>)>>)>>), Call("T", <<StrLit(<<41>>)>>), Call("Opt", <<Call("NT",
    <<StrLit(<<68, 105, 109, 115>>)>>)>>)>>)>>)],
  \* lines 927-929: rules.set("ReceiverParameter", () =>
  \* D(Seq(ZOM(NT("Annotation")), NT("UnannType"), Opt(Seq(NT("Identifier"),
  \* T("."))), T("this")))
  [name |-> <<82, 101, 99, 101, 105, 118, 101, 114, 80, 97, 114, 97, 109, 101,
    116, 101, 114>>,
   body |-> Call("D", <<Call("Seq", <<Call("ZOM", <<Call("NT", <<StrLit(<<65,
    110, 110, 111, 116, 97, 116, 105, 111, 110>>)>>)>>), Call("NT",
    <<StrLit(<<85, 110, 97, 110, 110, 84, 121, 112, 101>>)>>), Call("Opt",
    <<Call("Seq", <<Call("NT", <<StrLit(<<73, 100, 101, 110, 116, 105, 102,
    105, 101, 114>>)>>), Call("T", <<StrLit(<<46>>)>>)>>)>>), Call("T",
    <<StrLit(<<116, 104, 105, 115>>)>>)>>)>>)],
  \* lines 931-933: rules.set("FormalParameterList", () =>
  \* D(Seq(NT("FormalParameter"), ZOM(Seq(T(","), NT("FormalParameter")))))
  [name |-> <<70, 111, 114, 109, 97, 108, 80, 97, 114, 97, 109, 101, 116, 101,
    114, 76, 105, 115, 116>>,
   body |-> Call("D", <<Call("Seq", <<Call("NT", <<StrLit(<<70, 111, 114, 109,
    97, 108, 80, 97, 114, 97, 109, 101, 116, 101, 114>>)>>), Call("ZOM",
    <<Call("Seq", <<Call("T", <<StrLit(<<44>>)>>), Call("NT", <<StrLit(<<70,
    111, 114, 109, 97, 108, 80, 97, 114, 97, 109, 101, 116, 101,
    114>>)>>)>>)>>)>>)>>)],
  \* lines 935-942: rules.set("FormalParameter", () =>
  \* D(Ch(0, Seq(ZOM(NT("VariableModifier")), NT("UnannType"), NT(
  \* "VariableDeclaratorId")), NT("VariableArityParameter")))
  [name |-> <<70, 111, 114, 109, 97, 108, 80, 97, 114, 97, 109, 101, 116, 101,
    114>>,
   body |-> Call("D", <<Call("Ch", <<NumLit(0), Call("Seq", <<Call("ZOM",
    <<Call("NT", <<StrLit(<<86, 97, 114, 105, 97, 98, 108, 101, 77, 111, 100,
    105, 102, 105, 101, 114>>)>>)>>), Call("NT", <<StrLit(<<85, 110, 97, 110,
    110, 84, 121, 112, 101>>)>>), Call("NT", <<StrLit(<<86, 97, 114, 105, 97,
    98, 108, 101, 68, 101, 99, 108, 97, 114, 97, 116, 111, 114, 73,
    100>>)>>)>>), Call("NT", <<StrLit(<<86, 97, 114, 105, 97, 98, 108, 101, 65,
    114, 105, 116, 121, 80, 97, 114, 97, 109, 101, 116, 101, 114>>)>>)>>)>>)],
  \* lines 944-946: rules.set("VariableArityParameter", () =>
  \* D(Seq(ZOM(NT("VariableModifier")), NT("UnannType"), ZOM(NT("Annotation")
  \* ), T("..."), NT("Identifier")))
  [name |-> <<86, 97, 114, 105, 97, 98, 108, 101, 65, 114, 105, 116, 121, 80,
    97, 114, 97, 109, 101, 116, 101, 114>>,
   body |-> Call("D", <<Call("Seq", <<Call("ZOM", <<Call("NT", <<StrLit(<<86,
    97, 114, 105, 97, 98, 108, 101, 77, 111, 100, 105, 102, 105, 101,
    114>>)>>)>>), Call("NT", <<StrLit(<<85, 110, 97, 110, 110, 84, 121, 112,
    101>>)>>), Call("ZOM", <<Call("NT", <<StrLit(<<65, 110, 110, 111, 116, 97,
    116, 105, 111, 110>>)>>)>>), Call("T", <<StrLit(<<46, 46, 46>>)>>),
    Call("NT", <<StrLit(<<73, 100, 101, 110, 116, 105, 102, 105, 101,
    114>>)>>)>>)>>)],
  \* lines 948-950: rules.set("VariableModifier", () =>
  \* D(Ch(0, NT("Annotation"), T("final")))
  [name |-> <<86, 97, 114, 105, 97, 98, 108, 101, 77, 111, 100, 105, 102, 105,
    101, 114>>,
   body |-> Call("D", <<Call("Ch", <<NumLit(0), Call("NT", <<StrLit(<<65, 110,
    110, 111, 116, 97, 116, 105, 111, 110>>)>>), Call("T", <<StrLit(<<102, 105,
    110, 97, 108>>)>>)>>)>>)],
  \* lines 952-954: rules.set("Throws", () =>
  \* D(Seq(T("throws"), NT("ExceptionTypeList")))
  [name |-> <<84, 104, 114, 111, 119, 115>>,
   body |-> Call("D", <<Call("Seq", <<Call("T", <<StrLit(<<116, 104, 114, 111,
    119, 115>>)>>), Call("NT", <<StrLit(<<69, 120, 99, 101, 112, 116, 105, 111,
    110, 84, 121, 112, 101, 76, 105, 115, 116>>)>>)>>)>>)],
  \* lines 956-958: rules.set("ExceptionTypeList", () =>
  \* D(Seq(NT("ExceptionType"), ZOM(Seq(T(","), NT("ExceptionType")))))
  [name |-> <<69, 120, 99, 101, 112, 116, 105, 111, 110, 84, 121, 112, 101, 76,
    105, 115, 116>>,
   body |-> Call("D", <<Call("Seq", <<Call("NT", <<StrLit(<<69, 120, 99, 101,
    112, 116, 105, 111, 110, 84, 121, 112, 101>>)>>), Call("ZOM", <<Call("Seq",
    <<Call("T", <<StrLit(<<44>>)>>), Call("NT", <<StrLit(<<69, 120, 99, 101,
    112, 116, 105, 111, 110, 84, 121, 112, 101>>)>>)>>)>>)>>)>>)],
  \* lines 960-962: rules.set("ExceptionType", () =>
  \* D(Ch(0, NT("ClassType"), NT("TypeVariable")))
  [name |-> <<69, 120, 99, 101, 112, 116, 105, 111, 110, 84, 121, 112, 101>>,
   body |-> Call("D", <<Call("Ch", <<NumLit(0), Call("NT", <<StrLit(<<67, 108,
    97, 115, 115, 84, 121, 112, 101>>)>>), Call("NT", <<StrLit(<<84, 121, 112,
    101, 86, 97, 114, 105, 97, 98, 108, 101>>)>>)>>)>>)],
  \* lines 964-966: rules.set("MethodBody", () =>
  \* D(Ch(0, NT("Block"), T(";")))
  [name |-> <<77, 101, 116, 104, 111, 100, 66, 111, 100, 121>>,
   body |-> Call("D", <<Call("Ch", <<NumLit(0), Call("NT", <<StrLit(<<66, 108,
    111, 99, 107>>)>>), Call("T", <<StrLit(<<59>>)>>)>>)>>)],
  \* lines 968-970: rules.set("InstanceInitializer", () =>
  \* D(NT("Block"))
  [name |-> <<73, 110, 115, 116, 97, 110, 99, 101, 73, 110, 105, 116, 105, 97,
    108, 105, 122, 101, 114>>,
   body |-> Call("D", <<Call("NT", <<StrLit(<<66, 108, 111, 99, 107>>)>>)>>)],
  \* lines 972-974: rules.set("StaticInitializer", () =>
  \* D(Seq(T("static"), NT("Block")))
  [name |-> <<83, 116, 97, 116, 105, 99, 73, 110, 105, 116, 105, 97, 108, 105,
    122, 101, 114>>,
   body |-> Call("D", <<Call("Seq", <<Call("T", <<StrLit(<<115, 116, 97, 116,
    105, 99>>)>>), Call("NT", <<StrLit(<<66, 108, 111, 99, 107>>)>>)>>)>>)],
  \* lines 976-978: rules.set("ConstructorDeclaration", () =>
  \* D(Seq(ZOM(NT("ConstructorModifier")), NT("ConstructorDeclarator"), Opt(
  \* NT("Throws")), NT("ConstructorBody")))
  [name |-> <<67, 111, 110, 115, 116, 114, 117, 99, 116, 111, 114, 68, 101, 99,
    108, 97, 114, 97, 116, 105, 111, 110>>,
   body |-> Call("D", <<Call("Seq", <<Call("ZOM", <<Call("NT", <<StrLit(<<67,
    111, 110, 115, 116, 114, 117, 99, 116, 111, 114, 77, 111, 100, 105, 102,
    105, 101, 114>>)>>)>>), Call("NT", <<StrLit(<<67, 111, 110, 115, 116, 114,
    117, 99, 116, 111, 114, 68, 101, 99, 108, 97, 114, 97, 116, 111, 114>>)>>),
    Call("Opt", <<Call("NT", <<StrLit(<<84, 104, 114, 111, 119, 115>>)>>)>>),
    Call("NT", <<StrLit(<<67, 111, 110, 115, 116, 114, 117, 99, 116, 111, 114,
    66, 111, 100, 121>>)>>)>>)>>)],
  \* lines 980-982: rules.set("ConstructorModifier", () =>
  \* D(Ch(0, NT("Annotation"), T("public"), T("protected"), T("private")))
  [name |-> <<67, 111, 110, 115, 116, 114, 117, 99, 116, 111, 114, 77, 111,
    100, 105, 102, 105, 101, 114>>,
   body |-> Call("D", <<Call("Ch", <<NumLit(0), Call("NT", <<StrLit(<<65, 110,
    110, 111, 116, 97, 116, 105, 111, 110>>)>>), Call("T", <<StrLit(<<112, 117,
    98, 108, 105, 99>>)>>), Call("T", <<StrLit(<<112, 114, 111, 116, 101, 99,
    116, 101, 100>>)>>), Call("T", <<StrLit(<<112, 114, 105, 118, 97, 116,
    101>>)>>)>>)>>)],
  \* lines 984-995: rules.set("ConstructorDeclarator", () =>
  \* D(Seq(Opt(NT("TypeParameters")), NT("SimpleTypeName"), T("("), Opt(Seq(
  \* NT("ReceiverParameter"), T(","))), Opt(NT("FormalParameterList")), T(")")
  \* ))
  [name |-> <<67, 111, 110, 115, 116, 114, 117, 99, 116, 111, 114, 68, 101, 99,
    108, 97, 114, 97, 116, 111, 114>>,
   body |-> Call("D", <<Call("Seq", <<Call("Opt", <<Call("NT", <<StrLit(<<84,
    121, 112, 101, 80, 97, 114, 97, 109, 101, 116, 101, 114, 115>>)>>)>>),
    Call("NT", <<StrLit(<<83, 105, 109, 112, 108, 101, 84, 121, 112, 101, 78,
    97, 109, 101>>)>>), Call("T", <<StrLit(<<40>>)>>), Call("Opt",
    <<Call("Seq", <<Call("NT", <<StrLit(<<82, 101, 99, 101, 105, 118, 101, 114,
    80, 97, 114, 97, 109, 101, 116, 101, 114>>)>>), Call("T",
    <<StrLit(<<44>>)>>)>>)>>), Call("Opt", <<Call("NT", <<StrLit(<<70, 111,
    114, 109, 97, 108, 80, 97, 114, 97, 109, 101, 116, 101, 114, 76, 105, 115,
    116>>)>>)>>), Call("T", <<StrLit(<<41>>)>>)>>)>>)],
  \* lines 997-999: rules.set("SimpleTypeName", () =>
  \* D(NT("TypeIdentifier"))
  [name |-> <<83, 105, 109, 112, 108, 101, 84, 121, 112, 101, 78, 97, 109,
    101>>,
   body |-> Call("D", <<Call("NT", <<StrLit(<<84, 121, 112, 101, 73, 100, 101,
    110, 116, 105, 102, 105, 101, 114>>)>>)>>)],
  \* lines 1001-1008: rules.set("ConstructorBody", () =>
  \* D(Ch(0, Seq(T("{"), Opt(NT("BlockStatements")), NT(
  \* "ConstructorInvocation"), Opt(NT("BlockStatements")), T("}")), Seq(T("{"
  \* ), Opt(NT("BlockStatements")), T("}"))))
  [name |-> <<67, 111, 110, 115, 116, 114, 117, 99, 116, 111, 114, 66, 111,
    100, 121>>,
   body |-> Call("D", <<Call("Ch", <<NumLit(0), Call("Seq", <<Call("T",
    <<StrLit(<<123>>)>>), Call("Opt", <<Call("NT", <<StrLit(<<66, 108, 111, 99,
    107, 83, 116, 97, 116, 101, 109, 101, 110, 116, 115>>)>>)>>), Call("NT",
    <<StrLit(<<67, 111, 110, 115, 116, 114, 117, 99, 116, 111, 114, 73, 110,
    118, 111, 99, 97, 116, 105, 111, 110>>)>>), Call("Opt", <<Call("NT",
    <<StrLit(<<66, 108, 111, 99, 107, 83, 116, 97, 116, 101, 109, 101, 110,
    116, 115>>)>>)>>), Call("T", <<StrLit(<<125>>)>>)>>), Call("Seq",
    <<Call("T", <<StrLit(<<123>>)>>), Call("Opt", <<Call("NT", <<StrLit(<<66,
    108, 111, 99, 107, 83, 116, 97, 116, 101, 109, 101, 110, 116, 115>>)>>)>>),
    Call("T", <<StrLit(<<125>>)>>)>>)>>)>>)],
  \* lines 1010-1019: rules.set("ConstructorInvocation", () =>
  \* D(Ch(0, Seq(Opt(NT("TypeArguments")), T("this"), T("("), Opt(NT(
  \* "ArgumentList")), T(")"), T(";")), Seq(Opt(NT("TypeArguments")), T(
  \* "super"), T("("), Opt(NT("ArgumentList")), T(")"), T(";")), Seq(NT(
  \* "ExpressionName"), T("."), Opt(NT("TypeArguments")), T("super"), T("("),
  \* Opt(NT("ArgumentList")), T(")"), T(";")), Seq(NT("Primary"), T("."), Opt(
  \* NT("TypeArguments")), T("super"), T("("), Opt(NT("ArgumentList")), T(")"
  \* ), T(";"))))
  [name |-> <<67, 111, 110, 115, 116, 114, 117, 99, 116, 111, 114, 73, 110,
    118, 111, 99, 97, 116, 105, 111, 110>>,
   body |-> Call("D", <<Call("Ch", <<NumLit(0), Call("Seq", <<Call("Opt",
    <<Call("NT", <<StrLit(<<84, 121, 112, 101, 65, 114, 103, 117, 109, 101,
    110, 116, 115>>)>>)>>), Call("T", <<StrLit(<<116, 104, 105, 115>>)>>),
    Call("T", <<StrLit(<<40>>)>>), Call("Opt", <<Call("NT", <<StrLit(<<65, 114,
    103, 117, 109, 101, 110, 116, 76, 105, 115, 116>>)>>)>>), Call("T",
    <<StrLit(<<41>>)>>), Call("T", <<StrLit(<<59>>)>>)>>), Call("Seq",
    <<Call("Opt", <<Call("NT", <<StrLit(<<84, 121, 112, 101, 65, 114, 103, 117,
    109, 101, 110, 116, 115>>)>>)>>), Call("T", <<StrLit(<<115, 117, 112, 101,
    114>>)>>), Call("T", <<StrLit(<<40>>)>>), Call("Opt", <<Call("NT",
    <<StrLit(<<65, 114, 103, 117, 109, 101, 110, 116, 76, 105, 115,
    116>>)>>)>>), Call("T", <<StrLit(<<41>>)>>), Call("T",
    <<StrLit(<<59>>)>>)>>), Call("Seq", <<Call("NT", <<StrLit(<<69, 120, 112,
    114, 101, 115, 115, 105, 111, 110, 78, 97, 109, 101>>)>>), Call("T",
    <<StrLit(<<46>>)>>), Call("Opt", <<Call("NT", <<StrLit(<<84, 121, 112, 101,
    65, 114, 103, 117, 109, 101, 110, 116, 115>>)>>)>>), Call("T",
    <<StrLit(<<115, 117, 112, 101, 114>>)>>), Call("T", <<StrLit(<<40>>)>>),
    Call("Opt", <<Call("NT", <<StrLit(<<65, 114, 103, 117, 109, 101, 110, 116,
    76, 105, 115, 116>>)>>)>>), Call("T", <<StrLit(<<41>>)>>), Call("T",
    <<StrLit(<<59>>)>>)>>), Call("Seq", <<Call("NT", <<StrLit(<<80, 114, 105,
    109, 97, 114, 121>>)>>), Call("T", <<StrLit(<<46>>)>>), Call("Opt",
    <<Call("NT", <<StrLit(<<84, 121, 112, 101, 65, 114, 103, 117, 109, 101,
    110, 116, 115>>)>>)>>), Call("T", <<StrLit(<<115, 117, 112, 101, 114>>)>>),
    Call("T", <<StrLit(<<40>>)>>), Call("Opt", <<Call("NT", <<StrLit(<<65, 114,
    103, 117, 109, 101, 110, 116, 76, 105, 115, 116>>)>>)>>), Call("T",
    <<StrLit(<<41>>)>>), Call("T", <<StrLit(<<59>>)>>)>>)>>)>>)],
  \* lines 1021-1023: rules.set("EnumDeclaration", () =>
  \* D(Seq(ZOM(NT("ClassModifier")), T("enum"), NT("TypeIdentifier"), Opt(NT(
  \* "ClassImplements")), NT("EnumBody")))
  [name |-> <<69, 110, 117, 109, 68, 101, 99, 108, 97, 114, 97, 116, 105, 111,
    110>>,
   body |-> Call("D", <<Call("Seq", <<Call("ZOM", <<Call("NT", <<StrLit(<<67,
    108, 97, 115, 115, 77, 111, 100, 105, 102, 105, 101, 114>>)>>)>>),
    Call("T", <<StrLit(<<101, 110, 117, 109>>)>>), Call("NT", <<StrLit(<<84,
    121, 112, 101, 73, 100, 101, 110, 116, 105, 102, 105, 101, 114>>)>>),
    Call("Opt", <<Call("NT", <<StrLit(<<67, 108, 97, 115, 115, 73, 109, 112,
    108, 101, 109, 101, 110, 116, 115>>)>>)>>), Call("NT", <<StrLit(<<69, 110,
    117, 109, 66, 111, 100, 121>>)>>)>>)>>)],
  \* lines 1025-1027: rules.set("EnumBody", () =>
  \* D(Seq(T("{"), Opt(NT("EnumConstantList")), Opt(T(",")), Opt(NT(
  \* "EnumBodyDeclarations")), T("}")))
  [name |-> <<69, 110, 117, 109, 66, 111, 100, 121>>,
   body |-> Call("D", <<Call("Seq", <<Call("T", <<StrLit(<<123>>)>>),
    Call("Opt", <<Call("NT", <<StrLit(<<69, 110, 117, 109, 67, 111, 110, 115,
    116, 97, 110, 116, 76, 105, 115, 116>>)>>)>>), Call("Opt", <<Call("T",
    <<StrLit(<<44>>)>>)>>), Call("Opt", <<Call("NT", <<StrLit(<<69, 110, 117,
    109, 66, 111, 100, 121, 68, 101, 99, 108, 97, 114, 97, 116, 105, 111, 110,
    115>>)>>)>>), Call("T", <<StrLit(<<125>>)>>)>>)>>)],
  \* lines 1029-1031: rules.set("EnumConstantList", () =>
  \* D(Seq(NT("EnumConstant"), ZOM(Seq(T(","), NT("EnumConstant")))))
  [name |-> <<69, 110, 117, 109, 67, 111, 110, 115, 116, 97, 110, 116, 76, 105,
    115, 116>>,
   body |-> Call("D", <<Call("Seq", <<Call("NT", <<StrLit(<<69, 110, 117, 109,
    67, 111, 110, 115, 116, 97, 110, 116>>)>>), Call("ZOM", <<Call("Seq",
    <<Call("T", <<StrLit(<<44>>)>>), Call("NT", <<StrLit(<<69, 110, 117, 109,
    67, 111, 110, 115, 116, 97, 110, 116>>)>>)>>)>>)>>)>>)],
  \* lines 1033-1035: rules.set("EnumConstant", () =>
  \* D(Seq(ZOM(NT("EnumConstantModifier")), NT("Identifier"), Opt(Seq(T("("),
  \* Opt(NT("ArgumentList")), T(")"))), Opt(NT("ClassBody"))))
  [name |-> <<69, 110, 117, 109, 67, 111, 110, 115, 116, 97, 110, 116>>,
   body |-> Call("D", <<Call("Seq", <<Call("ZOM", <<Call("NT", <<StrLit(<<69,
    110, 117, 109, 67, 111, 110, 115, 116, 97, 110, 116, 77, 111, 100, 105,
    102, 105, 101, 114>>)>>)>>), Call("NT", <<StrLit(<<73, 100, 101, 110, 116,
    105, 102, 105, 101, 114>>)>>), Call("Opt", <<Call("Seq", <<Call("T",
    <<StrLit(<<40>>)>>), Call("Opt", <<Call("NT", <<StrLit(<<65, 114, 103, 117,
    109, 101, 110, 116, 76, 105, 115, 116>>)>>)>>), Call("T",
    <<StrLit(<<41>>)>>)>>)>>), Call("Opt", <<Call("NT", <<StrLit(<<67, 108, 97,
    115, 115, 66, 111, 100, 121>>)>>)>>)>>)>>)],
  \* lines 1037-1039: rules.set("EnumConstantModifier", () =>
  \* D(NT("Annotation"))
  [name |-> <<69, 110, 117, 109, 67, 111, 110, 115, 116, 97, 110, 116, 77, 111,
    100, 105, 102, 105, 101, 114>>,
   body |-> Call("D", <<Call("NT", <<StrLit(<<65, 110, 110, 111, 116, 97, 116,
    105, 111, 110>>)>>)>>)],
  \* lines 1041-1043: rules.set("EnumBodyDeclarations", () =>
  \* D(Seq(T(";"), ZOM(NT("ClassBodyDeclaration"))))
  [name |-> <<69, 110, 117, 109, 66, 111, 100, 121, 68, 101, 99, 108, 97, 114,
    97, 116, 105, 111, 110, 115>>,
   body |-> Call("D", <<Call("Seq", <<Call("T", <<StrLit(<<59>>)>>),
    Call("ZOM", <<Call("NT", <<StrLit(<<67, 108, 97, 115, 115, 66, 111, 100,
    121, 68, 101, 99, 108, 97, 114, 97, 116, 105, 111, 110>>)>>)>>)>>)>>)],
  \* lines 1045-1057: rules.set("RecordDeclaration", () =>
  \* D(Seq(ZOM(NT("ClassModifier")), T("record"), NT("TypeIdentifier"), Opt(
  \* NT("TypeParameters")), NT("RecordHeader"), Opt(NT("ClassImplements")),
  \* NT("RecordBody")))
  [name |-> <<82, 101, 99, 111, 114, 100, 68, 101, 99, 108, 97, 114, 97, 116,
    105, 111, 110>>,
   body |-> Call("D", <<Call("Seq", <<Call("ZOM", <<Call("NT", <<StrLit(<<67,
    108, 97, 115, 115, 77, 111, 100, 105, 102, 105, 101, 114>>)>>)>>),
    Call("T", <<StrLit(<<114, 101, 99, 111, 114, 100>>)>>), Call("NT",
    <<StrLit(<<84, 121, 112, 101, 73, 100, 101, 110, 116, 105, 102, 105, 101,
    114>>)>>), Call("Opt", <<Call("NT", <<StrLit(<<84, 121, 112, 101, 80, 97,
    114, 97, 109, 101, 116, 101, 114, 115>>)>>)>>), Call("NT", <<StrLit(<<82,
    101, 99, 111, 114, 100, 72, 101, 97, 100, 101, 114>>)>>), Call("Opt",
    <<Call("NT", <<StrLit(<<67, 108, 97, 115, 115, 73, 109, 112, 108, 101, 109,
    101, 110, 116, 115>>)>>)>>), Call("NT", <<StrLit(<<82, 101, 99, 111, 114,
    100, 66, 111, 100, 121>>)>>)>>)>>)],
  \* lines 1059-1061: rules.set("RecordHeader", () =>
  \* D(Seq(T("("), Opt(NT("RecordComponentList")), T(")")))
  [name |-> <<82, 101, 99, 111, 114, 100, 72, 101, 97, 100, 101, 114>>,
   body |-> Call("D", <<Call("Seq", <<Call("T", <<StrLit(<<40>>)>>),
    Call("Opt", <<Call("NT", <<StrLit(<<82, 101, 99, 111, 114, 100, 67, 111,
    109, 112, 111, 110, 101, 110, 116, 76, 105, 115, 116>>)>>)>>), Call("T",
    <<StrLit(<<41>>)>>)>>)>>)],
  \* lines 1063-1065: rules.set("RecordComponentList", () =>
  \* D(Seq(NT("RecordComponent"), ZOM(Seq(T(","), NT("RecordComponent")))))
  [name |-> <<82, 101, 99, 111, 114, 100, 67, 111, 109, 112, 111, 110, 101,
    110, 116, 76, 105, 115, 116>>,
   body |-> Call("D", <<Call("Seq", <<Call("NT", <<StrLit(<<82, 101, 99, 111,
    114, 100, 67, 111, 109, 112, 111, 110, 101, 110, 116>>)>>), Call("ZOM",
    <<Call("Seq", <<Call("T", <<StrLit(<<44>>)>>), Call("NT", <<StrLit(<<82,
    101, 99, 111, 114, 100, 67, 111, 109, 112, 111, 110, 101, 110,
    116>>)>>)>>)>>)>>)>>)],
  \* lines 1067-1074: rules.set("RecordComponent", () =>
  \* D(Ch(0, Seq(ZOM(NT("RecordComponentModifier")), NT("UnannType"), NT(
  \* "Identifier")), NT("VariableArityRecordComponent")))
  [name |-> <<82, 101, 99, 111, 114, 100, 67, 111, 109, 112, 111, 110, 101,
    110, 116>>,
   body |-> Call("D", <<Call("Ch", <<NumLit(0), Call("Seq", <<Call("ZOM",
    <<Call("NT", <<StrLit(<<82, 101, 99, 111, 114, 100, 67, 111, 109, 112, 111,
    110, 101, 110, 116, 77, 111, 100, 105, 102, 105, 101, 114>>)>>)>>),
    Call("NT", <<StrLit(<<85, 110, 97, 110, 110, 84, 121, 112, 101>>)>>),
    Call("NT", <<StrLit(<<73, 100, 101, 110, 116, 105, 102, 105, 101,
    114>>)>>)>>), Call("NT", <<StrLit(<<86, 97, 114, 105, 97, 98, 108, 101, 65,
    114, 105, 116, 121, 82, 101, 99, 111, 114, 100, 67, 111, 109, 112, 111,
    110, 101, 110, 116>>)>>)>>)>>)],
  \* lines 1076-1078: rules.set("VariableArityRecordComponent", () =>
  \* D(Seq(ZOM(NT("RecordComponentModifier")), NT("UnannType"), ZOM(NT(
  \* "Annotation")), T("..."), NT("Identifier")))
  [name |-> <<86, 97, 114, 105, 97, 98, 108, 101, 65, 114, 105, 116, 121, 82,
    101, 99, 111, 114, 100, 67, 111, 109, 112, 111, 110, 101, 110, 116>>,
   body |-> Call("D", <<Call("Seq", <<Call("ZOM", <<Call("NT", <<StrLit(<<82,
    101, 99, 111, 114, 100, 67, 111, 109, 112, 111, 110, 101, 110, 116, 77,
    111, 100, 105, 102, 105, 101, 114>>)>>)>>), Call("NT", <<StrLit(<<85, 110,
    97, 110, 110, 84, 121, 112, 101>>)>>), Call("ZOM", <<Call("NT",
    <<StrLit(<<65, 110, 110, 111, 116, 97, 116, 105, 111, 110>>)>>)>>),
    Call("T", <<StrLit(<<46, 46, 46>>)>>), Call("NT", <<StrLit(<<73, 100, 101,
    110, 116, 105, 102, 105, 101, 114>>)>>)>>)>>)],
  \* lines 1080-1082: rules.set("RecordComponentModifier", () =>
  \* D(NT("Annotation"))
  [name |-> <<82, 101, 99, 111, 114, 100, 67, 111, 109, 112, 111, 110, 101,
    110, 116, 77, 111, 100, 105, 102, 105, 101, 114>>,
   body |-> Call("D", <<Call("NT", <<StrLit(<<65, 110, 110, 111, 116, 97, 116,
    105, 111, 110>>)>>)>>)],
  \* lines 1084-1086: rules.set("RecordBody", () =>
  \* D(Seq(T("{"), ZOM(NT("RecordBodyDeclaration")), T("}")))
  [name |-> <<82, 101, 99, 111, 114, 100, 66, 111, 100, 121>>,
   body |-> Call("D", <<Call("Seq", <<Call("T", <<StrLit(<<123>>)>>),
    Call("ZOM", <<Call("NT", <<StrLit(<<82, 101, 99, 111, 114, 100, 66, 111,
    100, 121, 68, 101, 99, 108, 97, 114, 97, 116, 105, 111, 110>>)>>)>>),
    Call("T", <<StrLit(<<125>>)>>)>>)>>)],
  \* lines 1088-1090: rules.set("RecordBodyDeclaration", () =>
  \* D(Ch(0, NT("ClassBodyDeclaration"), NT("CompactConstructorDeclaration")))
  [name |-> <<82, 101, 99, 111, 114, 100, 66, 111, 100, 121, 68, 101, 99, 108,
    97, 114, 97, 116, 105, 111, 110>>,
   body |-> Call("D", <<Call("Ch", <<NumLit(0), Call("NT", <<StrLit(<<67, 108,
    97, 115, 115, 66, 111, 100, 121, 68, 101, 99, 108, 97, 114, 97, 116, 105,
    111, 110>>)>>), Call("NT", <<StrLit(<<67, 111, 109, 112, 97, 99, 116, 67,
    111, 110, 115, 116, 114, 117, 99, 116, 111, 114, 68, 101, 99, 108, 97, 114,
    97, 116, 105, 111, 110>>)>>)>>)>>)],
  \* lines 1092-1094: rules.set("CompactConstructorDeclaration", () =>
  \* D(Seq(ZOM(NT("ConstructorModifier")), NT("SimpleTypeName"), NT(
  \* "ConstructorBody")))
  [name |-> <<67, 111, 109, 112, 97, 99, 116, 67, 111, 110, 115, 116, 114, 117,
    99, 116, 111, 114, 68, 101, 99, 108, 97, 114, 97, 116, 105, 111, 110>>,
   body |-> Call("D", <<Call("Seq", <<Call("ZOM", <<Call("NT", <<StrLit(<<67,
    111, 110, 115, 116, 114, 117, 99, 116, 111, 114, 77, 111, 100, 105, 102,
    105, 101, 114>>)>>)>>), Call("NT", <<StrLit(<<83, 105, 109, 112, 108, 101,
    84, 121, 112, 101, 78, 97, 109, 101>>)>>), Call("NT", <<StrLit(<<67, 111,
    110, 115, 116, 114, 117, 99, 116, 111, 114, 66, 111, 100, 121>>)>>)>>)>>)],
  \* lines 1100-1102: rules.set("InterfaceDeclaration", () =>
  \* D(Ch(0, NT("NormalInterfaceDeclaration"), NT(
  \* "AnnotationInterfaceDeclaration")))
  [name |-> <<73, 110, 116, 101, 114, 102, 97, 99, 101, 68, 101, 99, 108, 97,
    114, 97, 116, 105, 111, 110>>,
   body |-> Call("D", <<Call("Ch", <<NumLit(0), Call("NT", <<StrLit(<<78, 111,
    114, 109, 97, 108, 73, 110, 116, 101, 114, 102, 97, 99, 101, 68, 101, 99,
    108, 97, 114, 97, 116, 105, 111, 110>>)>>), Call("NT", <<StrLit(<<65, 110,
    110, 111, 116, 97, 116, 105, 111, 110, 73, 110, 116, 101, 114, 102, 97, 99,
    101, 68, 101, 99, 108, 97, 114, 97, 116, 105, 111, 110>>)>>)>>)>>)],
  \* lines 1104-1116: rules.set("NormalInterfaceDeclaration", () =>
  \* D(Seq(ZOM(NT("InterfaceModifier")), T("interface"), NT("TypeIdentifier"),
  \* Opt(NT("TypeParameters")), Opt(NT("InterfaceExtends")), Opt(NT(
  \* "InterfacePermits")), NT("InterfaceBody")))
  [name |-> <<78, 111, 114, 109, 97, 108, 73, 110, 116, 101, 114, 102, 97, 99,
    101, 68, 101, 99, 108, 97, 114, 97, 116, 105, 111, 110>>,
   body |-> Call("D", <<Call("Seq", <<Call("ZOM", <<Call("NT", <<StrLit(<<73,
    110, 116, 101, 114, 102, 97, 99, 101, 77, 111, 100, 105, 102, 105, 101,
    114>>)>>)>>), Call("T", <<StrLit(<<105, 110, 116, 101, 114, 102, 97, 99,
    101>>)>>), Call("NT", <<StrLit(<<84, 121, 112, 101, 73, 100, 101, 110, 116,
    105, 102, 105, 101, 114>>)>>), Call("Opt", <<Call("NT", <<StrLit(<<84, 121,
    112, 101, 80, 97, 114, 97, 109, 101, 116, 101, 114, 115>>)>>)>>),
    Call("Opt", <<Call("NT", <<StrLit(<<73, 110, 116, 101, 114, 102, 97, 99,
    101, 69, 120, 116, 101, 110, 100, 115>>)>>)>>), Call("Opt", <<Call("NT",
    <<StrLit(<<73, 110, 116, 101, 114, 102, 97, 99, 101, 80, 101, 114, 109,
    105, 116, 115>>)>>)>>), Call("NT", <<StrLit(<<73, 110, 116, 101, 114, 102,
    97, 99, 101, 66, 111, 100, 121>>)>>)>>)>>)],
  \* lines 1118-1132: rules.set("InterfaceModifier", () =>
  \* D(Ch(0, NT("Annotation"), T("public"), T("protected"), T("private"), T(
  \* "abstract"), T("static"), T("sealed"), T("non-sealed"), T("strictfp")))
  [name |-> <<73, 110, 116, 101, 114, 102, 97, 99, 101, 77, 111, 100, 105, 102,
    105, 101, 114>>,
   body |-> Call("D", <<Call("Ch", <<NumLit(0), Call("NT", <<StrLit(<<65, 110,
    110, 111, 116, 97, 116, 105, 111, 110>>)>>), Call("T", <<StrLit(<<112, 117,
    98, 108, 105, 99>>)>>), Call("T", <<StrLit(<<112, 114, 111, 116, 101, 99,
    116, 101, 100>>)>>), Call("T", <<StrLit(<<112, 114, 105, 118, 97, 116,
    101>>)>>), Call("T", <<StrLit(<<97, 98, 115, 116, 114, 97, 99, 116>>)>>),
    Call("T", <<StrLit(<<115, 116, 97, 116, 105, 99>>)>>), Call("T",
    <<StrLit(<<115, 101, 97, 108, 101, 100>>)>>), Call("T", <<StrLit(<<110,
    111, 110, 45, 115, 101, 97, 108, 101, 100>>)>>), Call("T", <<StrLit(<<115,
    116, 114, 105, 99, 116, 102, 112>>)>>)>>)>>)],
  \* lines 1134-1136: rules.set("InterfaceExtends", () =>
  \* D(Seq(T("extends"), NT("InterfaceTypeList")))
  [name |-> <<73, 110, 116, 101, 114, 102, 97, 99, 101, 69, 120, 116, 101, 110,
    100, 115>>,
   body |-> Call("D", <<Call("Seq", <<Call("T", <<StrLit(<<101, 120, 116, 101,
    110, 100, 115>>)>>), Call("NT", <<StrLit(<<73, 110, 116, 101, 114, 102, 97,
    99, 101, 84, 121, 112, 101, 76, 105, 115, 116>>)>>)>>)>>)],
  \* lines 1138-1140: rules.set("InterfacePermits", () =>
  \* D(Seq(T("permits"), NT("TypeName"), ZOM(Seq(T(","), NT("TypeName")))))
  [name |-> <<73, 110, 116, 101, 114, 102, 97, 99, 101, 80, 101, 114, 109, 105,
    116, 115>>,
   body |-> Call("D", <<Call("Seq", <<Call("T", <<StrLit(<<112, 101, 114, 109,
    105, 116, 115>>)>>), Call("NT", <<StrLit(<<84, 121, 112, 101, 78, 97, 109,
    101>>)>>), Call("ZOM", <<Call("Seq", <<Call("T", <<StrLit(<<44>>)>>),
    Call("NT", <<StrLit(<<84, 121, 112, 101, 78, 97, 109,
    101>>)>>)>>)>>)>>)>>)],
  \* lines 1142-1144: rules.set("InterfaceBody", () =>
  \* D(Seq(T("{"), ZOM(NT("InterfaceMemberDeclaration")), T("}")))
  [name |-> <<73, 110, 116, 101, 114, 102, 97, 99, 101, 66, 111, 100, 121>>,
   body |-> Call("D", <<Call("Seq", <<Call("T", <<StrLit(<<123>>)>>),
    Call("ZOM", <<Call("NT", <<StrLit(<<73, 110, 116, 101, 114, 102, 97, 99,
    101, 77, 101, 109, 98, 101, 114, 68, 101, 99, 108, 97, 114, 97, 116, 105,
    111, 110>>)>>)>>), Call("T", <<StrLit(<<125>>)>>)>>)>>)],
  \* lines 1146-1156: rules.set("InterfaceMemberDeclaration", () =>
  \* D(Ch(0, NT("ConstantDeclaration"), NT("InterfaceMethodDeclaration"), NT(
  \* "ClassDeclaration"), NT("InterfaceDeclaration"), T(";")))
  [name |-> <<73, 110, 116, 101, 114, 102, 97, 99, 101, 77, 101, 109, 98, 101,
    114, 68, 101, 99, 108, 97, 114, 97, 116, 105, 111, 110>>,
   body |-> Call("D", <<Call("Ch", <<NumLit(0), Call("NT", <<StrLit(<<67, 111,
    110, 115, 116, 97, 110, 116, 68, 101, 99, 108, 97, 114, 97, 116, 105, 111,
    110>>)>>), Call("NT", <<StrLit(<<73, 110, 116, 101, 114, 102, 97, 99, 101,
    77, 101, 116, 104, 111, 100, 68, 101, 99, 108, 97, 114, 97, 116, 105, 111,
    110>>)>>), Call("NT", <<StrLit(<<67, 108, 97, 115, 115, 68, 101, 99, 108,
    97, 114, 97, 116, 105, 111, 110>>)>>), Call("NT", <<StrLit(<<73, 110, 116,
    101, 114, 102, 97, 99, 101, 68, 101, 99, 108, 97, 114, 97, 116, 105, 111,
    110>>)>>), Call("T", <<StrLit(<<59>>)>>)>>)>>)],
  \* lines 1158-1160: rules.set("ConstantDeclaration", () =>
  \* D(Seq(ZOM(NT("ConstantModifier")), NT("UnannType"), NT(
  \* "VariableDeclaratorList"), T(";")))
  [name |-> <<67, 111, 110, 115, 116, 97, 110, 116, 68, 101, 99, 108, 97, 114,
    97, 116, 105, 111, 110>>,
   body |-> Call("D", <<Call("Seq", <<Call("ZOM", <<Call("NT", <<StrLit(<<67,
    111, 110, 115, 116, 97, 110, 116, 77, 111, 100, 105, 102, 105, 101,
    114>>)>>)>>), Call("NT", <<StrLit(<<85, 110, 97, 110, 110, 84, 121, 112,
    101>>)>>), Call("NT", <<StrLit(<<86, 97, 114, 105, 97, 98, 108, 101, 68,
    101, 99, 108, 97, 114, 97, 116, 111, 114, 76, 105, 115, 116>>)>>),
    Call("T", <<StrLit(<<59>>)>>)>>)>>)],
  \* lines 1162-1164: rules.set("ConstantModifier", () =>
  \* D(Ch(0, NT("Annotation"), T("public"), T("static"), T("final")))
  [name |-> <<67, 111, 110, 115, 116, 97, 110, 116, 77, 111, 100, 105, 102,
    105, 101, 114>>,
   body |-> Call("D", <<Call("Ch", <<NumLit(0), Call("NT", <<StrLit(<<65, 110,
    110, 111, 116, 97, 116, 105, 111, 110>>)>>), Call("T", <<StrLit(<<112, 117,
    98, 108, 105, 99>>)>>), Call("T", <<StrLit(<<115, 116, 97, 116, 105,
    99>>)>>), Call("T", <<StrLit(<<102, 105, 110, 97, 108>>)>>)>>)>>)],
  \* lines 1166-1168: rules.set("InterfaceMethodDeclaration", () =>
  \* D(Seq(ZOM(NT("InterfaceMethodModifier")), NT("MethodHeader"), NT(
  \* "MethodBody")))
  [name |-> <<73, 110, 116, 101, 114, 102, 97, 99, 101, 77, 101, 116, 104, 111,
    100, 68, 101, 99, 108, 97, 114, 97, 116, 105, 111, 110>>,
   body |-> Call("D", <<Call("Seq", <<Call("ZOM", <<Call("NT", <<StrLit(<<73,
    110, 116, 101, 114, 102, 97, 99, 101, 77, 101, 116, 104, 111, 100, 77, 111,
    100, 105, 102, 105, 101, 114>>)>>)>>), Call("NT", <<StrLit(<<77, 101, 116,
    104, 111, 100, 72, 101, 97, 100, 101, 114>>)>>), Call("NT", <<StrLit(<<77,
    101, 116, 104, 111, 100, 66, 111, 100, 121>>)>>)>>)>>)],
  \* lines 1170-1172: rules.set("InterfaceMethodModifier", () =>
  \* D(Ch(0, NT("Annotation"), T("public"), T("private"), T("abstract"), T(
  \* "default"), T("static"), T("strictfp")))
  [name |-> <<73, 110, 116, 101, 114, 102, 97, 99, 101, 77, 101, 116, 104, 111,
    100, 77, 111, 100, 105, 102, 105, 101, 114>>,
   body |-> Call("D", <<Call("Ch", <<NumLit(0), Call("NT", <<StrLit(<<65, 110,
    110, 111, 116, 97, 116, 105, 111, 110>>)>>), Call("T", <<StrLit(<<112, 117,
    98, 108, 105, 99>>)>>), Call("T", <<StrLit(<<112, 114, 105, 118, 97, 116,
    101>>)>>), Call("T", <<StrLit(<<97, 98, 115, 116, 114, 97, 99, 116>>)>>),
    Call("T", <<StrLit(<<100, 101, 102, 97, 117, 108, 116>>)>>), Call("T",
    <<StrLit(<<115, 116, 97, 116, 105, 99>>)>>), Call("T", <<StrLit(<<115, 116,
    114, 105, 99, 116, 102, 112>>)>>)>>)>>)],
  \* lines 1174-1176: rules.set("AnnotationInterfaceDeclaration", () =>
  \* D(Seq(ZOM(NT("InterfaceModifier")), T("@"), T("interface"), NT(
  \* "TypeIdentifier"), NT("AnnotationInterfaceBody")))
  [name |-> <<65, 110, 110, 111, 116, 97, 116, 105, 111, 110, 73, 110, 116,
    101, 114, 102, 97, 99, 101, 68, 101, 99, 108, 97, 114, 97, 116, 105, 111,
    110>>,
   body |-> Call("D", <<Call("Seq", <<Call("ZOM", <<Call("NT", <<StrLit(<<73,
    110, 116, 101, 114, 102, 97, 99, 101, 77, 111, 100, 105, 102, 105, 101,
    114>>)>>)>>), Call("T", <<StrLit(<<64>>)>>), Call("T", <<StrLit(<<105, 110,
    116, 101, 114, 102, 97, 99, 101>>)>>), Call("NT", <<StrLit(<<84, 121, 112,
    101, 73, 100, 101, 110, 116, 105, 102, 105, 101, 114>>)>>), Call("NT",
    <<StrLit(<<65, 110, 110, 111, 116, 97, 116, 105, 111, 110, 73, 110, 116,
    101, 114, 102, 97, 99, 101, 66, 111, 100, 121>>)>>)>>)>>)],
  \* lines 1178-1180: rules.set("AnnotationInterfaceBody", () =>
  \* D(Seq(T("{"), ZOM(NT("AnnotationInterfaceMemberDeclaration")), T("}")))
  [name |-> <<65, 110, 110, 111, 116, 97, 116, 105, 111, 110, 73, 110, 116,
    101, 114, 102, 97, 99, 101, 66, 111, 100, 121>>,
   body |-> Call("D", <<Call("Seq", <<Call("T", <<StrLit(<<123>>)>>),
    Call("ZOM", <<Call("NT", <<StrLit(<<65, 110, 110, 111, 116, 97, 116, 105,
    111, 110, 73, 110, 116, 101, 114, 102, 97, 99, 101, 77, 101, 109, 98, 101,
    114, 68, 101, 99, 108, 97, 114, 97, 116, 105, 111, 110>>)>>)>>), Call("T",
    <<StrLit(<<125>>)>>)>>)>>)],
  \* lines 1182-1192: rules.set("AnnotationInterfaceMemberDeclaration", () =>
  \* D(Ch(0, NT("AnnotationInterfaceElementDeclaration"), NT(
  \* "ConstantDeclaration"), NT("ClassDeclaration"), NT("InterfaceDeclaration"
  \* ), T(";")))
  [name |-> <<65, 110, 110, 111, 116, 97, 116, 105, 111, 110, 73, 110, 116,
    101, 114, 102, 97, 99, 101, 77, 101, 109, 98, 101, 114, 68, 101, 99, 108,
    97, 114, 97, 116, 105, 111, 110>>,
   body |-> Call("D", <<Call("Ch", <<NumLit(0), Call("NT", <<StrLit(<<65, 110,
    110, 111, 116, 97, 116, 105, 111, 110, 73, 110, 116, 101, 114, 102, 97, 99,
    101, 69, 108, 101, 109, 101, 110, 116, 68, 101, 99, 108, 97, 114, 97, 116,
    105, 111, 110>>)>>), Call("NT", <<StrLit(<<67, 111, 110, 115, 116, 97, 110,
    116, 68, 101, 99, 108, 97, 114, 97, 116, 105, 111, 110>>)>>), Call("NT",
    <<StrLit(<<67, 108, 97, 115, 115, 68, 101, 99, 108, 97, 114, 97, 116, 105,
    111, 110>>)>>), Call("NT", <<StrLit(<<73, 110, 116, 101, 114, 102, 97, 99,
    101, 68, 101, 99, 108, 97, 114, 97, 116, 105, 111, 110>>)>>), Call("T",
    <<StrLit(<<59>>)>>)>>)>>)],
  \* lines 1194-1207: rules.set("AnnotationInterfaceElementDeclaration", () =>
  \* D(Seq(ZOM(NT("AnnotationInterfaceElementModifier")), NT("UnannType"), NT(
  \* "Identifier"), T("("), T(")"), Opt(NT("Dims")), Opt(NT("DefaultValue")),
  \* T(";")))
  [name |-> <<65, 110, 110, 111, 116, 97, 116, 105, 111, 110, 73, 110, 116,
    101, 114, 102, 97, 99, 101, 69, 108, 101, 109, 101, 110, 116, 68, 101, 99,
    108, 97, 114, 97, 116, 105, 111, 110>>,
   body |-> Call("D", <<Call("Seq", <<Call("ZOM", <<Call("NT", <<StrLit(<<65,
    110, 110, 111, 116, 97, 116, 105, 111, 110, 73, 110, 116, 101, 114, 102,
    97, 99, 101, 69, 108, 101, 109, 101, 110, 116, 77, 111, 100, 105, 102, 105,
    101, 114>>)>>)>>), Call("NT", <<StrLit(<<85, 110, 97, 110, 110, 84, 121,
    112, 101>>)>>), Call("NT", <<StrLit(<<73, 100, 101, 110, 116, 105, 102,
    105, 101, 114>>)>>), Call("T", <<StrLit(<<40>>)>>), Call("T",
    <<StrLit(<<41>>)>>), Call("Opt", <<Call("NT", <<StrLit(<<68, 105, 109,
    115>>)>>)>>), Call("Opt", <<Call("NT", <<StrLit(<<68, 101, 102, 97, 117,
    108, 116, 86, 97, 108, 117, 101>>)>>)>>), Call("T",
    <<StrLit(<<59>>)>>)>>)>>)],
  \* lines 1209-1211: rules.set("AnnotationInterfaceElementModifier", () =>
  \* D(Ch(0, NT("Annotation"), T("public"), T("abstract")))
  [name |-> <<65, 110, 110, 111, 116, 97, 116, 105, 111, 110, 73, 110, 116,
    101, 114, 102, 97, 99, 101, 69, 108, 101, 109, 101, 110, 116, 77, 111, 100,
    105, 102, 105, 101, 114>>,
   body |-> Call("D", <<Call("Ch", <<NumLit(0), Call("NT", <<StrLit(<<65, 110,
    110, 111, 116, 97, 116, 105, 111, 110>>)>>), Call("T", <<StrLit(<<112, 117,
    98, 108, 105, 99>>)>>), Call("T", <<StrLit(<<97, 98, 115, 116, 114, 97, 99,
    116>>)>>)>>)>>)],
  \* lines 1213-1215: rules.set("DefaultValue", () =>
  \* D(Seq(T("default"), NT("ElementValue")))
  [name |-> <<68, 101, 102, 97, 117, 108, 116, 86, 97, 108, 117, 101>>,
   body |-> Call("D", <<Call("Seq", <<Call("T", <<StrLit(<<100, 101, 102, 97,
    117, 108, 116>>)>>), Call("NT", <<StrLit(<<69, 108, 101, 109, 101, 110,
    116, 86, 97, 108, 117, 101>>)>>)>>)>>)],
  \* lines 1217-1219: rules.set("Annotation", () =>
  \* D(Ch(0, NT("NormalAnnotation"), NT("MarkerAnnotation"), NT(
  \* "SingleElementAnnotation")))
  [name |-> <<65, 110, 110, 111, 116, 97, 116, 105, 111, 110>>,
   body |-> Call("D", <<Call("Ch", <<NumLit(0), Call("NT", <<StrLit(<<78, 111,
    114, 109, 97, 108, 65, 110, 110, 111, 116, 97, 116, 105, 111, 110>>)>>),
    Call("NT", <<StrLit(<<77, 97, 114, 107, 101, 114, 65, 110, 110, 111, 116,
    97, 116, 105, 111, 110>>)>>), Call("NT", <<StrLit(<<83, 105, 110, 103, 108,
    101, 69, 108, 101, 109, 101, 110, 116, 65, 110, 110, 111, 116, 97, 116,
    105, 111, 110>>)>>)>>)>>)],
  \* lines 1221-1223: rules.set("NormalAnnotation", () =>
  \* D(Seq(T("@"), NT("TypeName"), T("("), Opt(NT("ElementValuePairList")), T(
  \* ")")))
  [name |-> <<78, 111, 114, 109, 97, 108, 65, 110, 110, 111, 116, 97, 116, 105,
    111, 110>>,
   body |-> Call("D", <<Call("Seq", <<Call("T", <<StrLit(<<64>>)>>), Call("NT",
    <<StrLit(<<84, 121, 112, 101, 78, 97, 109, 101>>)>>), Call("T",
    <<StrLit(<<40>>)>>), Call("Opt", <<Call("NT", <<StrLit(<<69, 108, 101, 109,
    101, 110, 116, 86, 97, 108, 117, 101, 80, 97, 105, 114, 76, 105, 115,
    116>>)>>)>>), Call("T", <<StrLit(<<41>>)>>)>>)>>)],
  \* lines 1225-1227: rules.set("ElementValuePairList", () =>
  \* D(Seq(NT("ElementValuePair"), ZOM(Seq(T(","), NT("ElementValuePair")))))
  [name |-> <<69, 108, 101, 109, 101, 110, 116, 86, 97, 108, 117, 101, 80, 97,
    105, 114, 76, 105, 115, 116>>,
   body |-> Call("D", <<Call("Seq", <<Call("NT", <<StrLit(<<69, 108, 101, 109,
    101, 110, 116, 86, 97, 108, 117, 101, 80, 97, 105, 114>>)>>), Call("ZOM",
    <<Call("Seq", <<Call("T", <<StrLit(<<44>>)>>), Call("NT", <<StrLit(<<69,
    108, 101, 109, 101, 110, 116, 86, 97, 108, 117, 101, 80, 97, 105,
    114>>)>>)>>)>>)>>)>>)],
  \* lines 1229-1231: rules.set("ElementValuePair", () =>
  \* D(Seq(NT("Identifier"), T("="), NT("ElementValue")))
  [name |-> <<69, 108, 101, 109, 101, 110, 116, 86, 97, 108, 117, 101, 80, 97,
    105, 114>>,
   body |-> Call("D", <<Call("Seq", <<Call("NT", <<StrLit(<<73, 100, 101, 110,
    116, 105, 102, 105, 101, 114>>)>>), Call("T", <<StrLit(<<61>>)>>),
    Call("NT", <<StrLit(<<69, 108, 101, 109, 101, 110, 116, 86, 97, 108, 117,
    101>>)>>)>>)>>)],
  \* lines 1233-1235: rules.set("ElementValue", () =>
  \* D(Ch(0, NT("ConditionalExpression"), NT("ElementValueArrayInitializer"),
  \* NT("Annotation")))
  [name |-> <<69, 108, 101, 109, 101, 110, 116, 86, 97, 108, 117, 101>>,
   body |-> Call("D", <<Call("Ch", <<NumLit(0), Call("NT", <<StrLit(<<67, 111,
    110, 100, 105, 116, 105, 111, 110, 97, 108, 69, 120, 112, 114, 101, 115,
    115, 105, 111, 110>>)>>), Call("NT", <<StrLit(<<69, 108, 101, 109, 101,
    110, 116, 86, 97, 108, 117, 101, 65, 114, 114, 97, 121, 73, 110, 105, 116,
    105, 97, 108, 105, 122, 101, 114>>)>>), Call("NT", <<StrLit(<<65, 110, 110,
    111, 116, 97, 116, 105, 111, 110>>)>>)>>)>>)],
  \* lines 1237-1239: rules.set("ElementValueArrayInitializer", () =>
  \* D(Seq(T("{"), Opt(NT("ElementValueList")), Opt(T(",")), T("}")))
  [name |-> <<69, 108, 101, 109, 101, 110, 116, 86, 97, 108, 117, 101, 65, 114,
    114, 97, 121, 73, 110, 105, 116, 105, 97, 108, 105, 122, 101, 114>>,
   body |-> Call("D", <<Call("Seq", <<Call("T", <<StrLit(<<123>>)>>),
    Call("Opt", <<Call("NT", <<StrLit(<<69, 108, 101, 109, 101, 110, 116, 86,
    97, 108, 117, 101, 76, 105, 115, 116>>)>>)>>), Call("Opt", <<Call("T",
    <<StrLit(<<44>>)>>)>>), Call("T", <<StrLit(<<125>>)>>)>>)>>)],
  \* lines 1241-1243: rules.set("ElementValueList", () =>
  \* D(Seq(NT("ElementValue"), ZOM(Seq(T(","), NT("ElementValue")))))
  [name |-> <<69, 108, 101, 109, 101, 110, 116, 86, 97, 108, 117, 101, 76, 105,
    115, 116>>,
   body |-> Call("D", <<Call("Seq", <<Call("NT", <<StrLit(<<69, 108, 101, 109,
    101, 110, 116, 86, 97, 108, 117, 101>>)>>), Call("ZOM", <<Call("Seq",
    <<Call("T", <<StrLit(<<44>>)>>), Call("NT", <<StrLit(<<69, 108, 101, 109,
    101, 110, 116, 86, 97, 108, 117, 101>>)>>)>>)>>)>>)>>)],
  \* lines 1245-1247: rules.set("MarkerAnnotation", () =>
  \* D(Seq(T("@"), NT("TypeName")))
  [name |-> <<77, 97, 114, 107, 101, 114, 65, 110, 110, 111, 116, 97, 116, 105,
    111, 110>>,
   body |-> Call("D", <<Call("Seq", <<Call("T", <<StrLit(<<64>>)>>), Call("NT",
    <<StrLit(<<84, 121, 112, 101, 78, 97, 109, 101>>)>>)>>)>>)],
  \* lines 1249-1251: rules.set("SingleElementAnnotation", () =>
  \* D(Seq(T("@"), NT("TypeName"), T("("), NT("ElementValue"), T(")")))
  [name |-> <<83, 105, 110, 103, 108, 101, 69, 108, 101, 109, 101, 110, 116,
    65, 110, 110, 111, 116, 97, 116, 105, 111, 110>>,
   body |-> Call("D", <<Call("Seq", <<Call("T", <<StrLit(<<64>>)>>), Call("NT",
    <<StrLit(<<84, 121, 112, 101, 78, 97, 109, 101>>)>>), Call("T",
    <<StrLit(<<40>>)>>), Call("NT", <<StrLit(<<69, 108, 101, 109, 101, 110,
    116, 86, 97, 108, 117, 101>>)>>), Call("T", <<StrLit(<<41>>)>>)>>)>>)],
  \* lines 1257-1259: rules.set("ArrayInitializer", () =>
  \* D(Seq(T("{"), Opt(NT("VariableInitializerList")), Opt(T(",")), T("}")))
  [name |-> <<65, 114, 114, 97, 121, 73, 110, 105, 116, 105, 97, 108, 105, 122,
    101, 114>>,
   body |-> Call("D", <<Call("Seq", <<Call("T", <<StrLit(<<123>>)>>),
    Call("Opt", <<Call("NT", <<StrLit(<<86, 97, 114, 105, 97, 98, 108, 101, 73,
    110, 105, 116, 105, 97, 108, 105, 122, 101, 114, 76, 105, 115,
    116>>)>>)>>), Call("Opt", <<Call("T", <<StrLit(<<44>>)>>)>>), Call("T",
    <<StrLit(<<125>>)>>)>>)>>)],
  \* lines 1261-1263: rules.set("VariableInitializerList", () =>
  \* D(Seq(NT("VariableInitializer"), ZOM(Seq(T(","), NT("VariableInitializer"
  \* )))))
  [name |-> <<86, 97, 114, 105, 97, 98, 108, 101, 73, 110, 105, 116, 105, 97,
    108, 105, 122, 101, 114, 76, 105, 115, 116>>,
   body |-> Call("D", <<Call("Seq", <<Call("NT", <<StrLit(<<86, 97, 114, 105,
    97, 98, 108, 101, 73, 110, 105, 116, 105, 97, 108, 105, 122, 101,
    114>>)>>), Call("ZOM", <<Call("Seq", <<Call("T", <<StrLit(<<44>>)>>),
    Call("NT", <<StrLit(<<86, 97, 114, 105, 97, 98, 108, 101, 73, 110, 105,
    116, 105, 97, 108, 105, 122, 101, 114>>)>>)>>)>>)>>)>>)],
  \* lines 1269-1271: rules.set("Block", () =>
  \* D(Seq(T("{"), Opt(NT("BlockStatements")), T("}")))
  [name |-> <<66, 108, 111, 99, 107>>,
   body |-> Call("D", <<Call("Seq", <<Call("T", <<StrLit(<<123>>)>>),
    Call("Opt", <<Call("NT", <<StrLit(<<66, 108, 111, 99, 107, 83, 116, 97,
    116, 101, 109, 101, 110, 116, 115>>)>>)>>), Call("T",
    <<StrLit(<<125>>)>>)>>)>>)],
  \* lines 1273-1275: rules.set("BlockStatements", () =>
  \* D(OOM(NT("BlockStatement")))
  [name |-> <<66, 108, 111, 99, 107, 83, 116, 97, 116, 101, 109, 101, 110, 116,
    115>>,
   body |-> Call("D", <<Call("OOM", <<Call("NT", <<StrLit(<<66, 108, 111, 99,
    107, 83, 116, 97, 116, 101, 109, 101, 110, 116>>)>>)>>)>>)],
  \* lines 1277-1279: rules.set("BlockStatement", () =>
  \* D(Ch(0, NT("LocalClassOrInterfaceDeclaration"), NT(
  \* "LocalVariableDeclarationStatement"), NT("Statement")))
  [name |-> <<66, 108, 111, 99, 107, 83, 116, 97, 116, 101, 109, 101, 110,
    116>>,
   body |-> Call("D", <<Call("Ch", <<NumLit(0), Call("NT", <<StrLit(<<76, 111,
    99, 97, 108, 67, 108, 97, 115, 115, 79, 114, 73, 110, 116, 101, 114, 102,
    97, 99, 101, 68, 101, 99, 108, 97, 114, 97, 116, 105, 111, 110>>)>>),
    Call("NT", <<StrLit(<<76, 111, 99, 97, 108, 86, 97, 114, 105, 97, 98, 108,
    101, 68, 101, 99, 108, 97, 114, 97, 116, 105, 111, 110, 83, 116, 97, 116,
    101, 109, 101, 110, 116>>)>>), Call("NT", <<StrLit(<<83, 116, 97, 116, 101,
    109, 101, 110, 116>>)>>)>>)>>)],
  \* lines 1281-1283: rules.set("LocalClassOrInterfaceDeclaration", () =>
  \* D(Ch(0, NT("ClassDeclaration"), NT("NormalInterfaceDeclaration")))
  [name |-> <<76, 111, 99, 97, 108, 67, 108, 97, 115, 115, 79, 114, 73, 110,
    116, 101, 114, 102, 97, 99, 101, 68, 101, 99, 108, 97, 114, 97, 116, 105,
    111, 110>>,
   body |-> Call("D", <<Call("Ch", <<NumLit(0), Call("NT", <<StrLit(<<67, 108,
    97, 115, 115, 68, 101, 99, 108, 97, 114, 97, 116, 105, 111, 110>>)>>),
    Call("NT", <<StrLit(<<78, 111, 114, 109, 97, 108, 73, 110, 116, 101, 114,
    102, 97, 99, 101, 68, 101, 99, 108, 97, 114, 97, 116, 105, 111,
    110>>)>>)>>)>>)],
  \* lines 1285-1287: rules.set("LocalVariableDeclarationStatement", () =>
  \* D(Seq(NT("LocalVariableDeclaration"), T(";")))
  [name |-> <<76, 111, 99, 97, 108, 86, 97, 114, 105, 97, 98, 108, 101, 68,
    101, 99, 108, 97, 114, 97, 116, 105, 111, 110, 83, 116, 97, 116, 101, 109,
    101, 110, 116>>,
   body |-> Call("D", <<Call("Seq", <<Call("NT", <<StrLit(<<76, 111, 99, 97,
    108, 86, 97, 114, 105, 97, 98, 108, 101, 68, 101, 99, 108, 97, 114, 97,
    116, 105, 111, 110>>)>>), Call("T", <<StrLit(<<59>>)>>)>>)>>)],
  \* lines 1289-1291: rules.set("LocalVariableDeclaration", () =>
  \* D(Seq(ZOM(NT("VariableModifier")), NT("LocalVariableType"), NT(
  \* "VariableDeclaratorList")))
  [name |-> <<76, 111, 99, 97, 108, 86, 97, 114, 105, 97, 98, 108, 101, 68,
    101, 99, 108, 97, 114, 97, 116, 105, 111, 110>>,
   body |-> Call("D", <<Call("Seq", <<Call("ZOM", <<Call("NT", <<StrLit(<<86,
    97, 114, 105, 97, 98, 108, 101, 77, 111, 100, 105, 102, 105, 101,
    114>>)>>)>>), Call("NT", <<StrLit(<<76, 111, 99, 97, 108, 86, 97, 114, 105,
    97, 98, 108, 101, 84, 121, 112, 101>>)>>), Call("NT", <<StrLit(<<86, 97,
    114, 105, 97, 98, 108, 101, 68, 101, 99, 108, 97, 114, 97, 116, 111, 114,
    76, 105, 115, 116>>)>>)>>)>>)],
  \* lines 1293-1295: rules.set("LocalVariableType", () =>
  \* D(Ch(0, NT("UnannType"), T("var")))
  [name |-> <<76, 111, 99, 97, 108, 86, 97, 114, 105, 97, 98, 108, 101, 84,
    121, 112, 101>>,
   body |-> Call("D", <<Call("Ch", <<NumLit(0), Call("NT", <<StrLit(<<85, 110,
    97, 110, 110, 84, 121, 112, 101>>)>>), Call("T", <<StrLit(<<118, 97,
    114>>)>>)>>)>>)],
  \* lines 1297-1308: rules.set("Statement", () =>
  \* D(Ch(0, NT("StatementWithoutTrailingSubstatement"), NT("LabeledStatement"
  \* ), NT("IfThenStatement"), NT("IfThenElseStatement"), NT("WhileStatement"
  \* ), NT("ForStatement")))
  [name |-> <<83, 116, 97, 116, 101, 109, 101, 110, 116>>,
   body |-> Call("D", <<Call("Ch", <<NumLit(0), Call("NT", <<StrLit(<<83, 116,
    97, 116, 101, 109, 101, 110, 116, 87, 105, 116, 104, 111, 117, 116, 84,
    114, 97, 105, 108, 105, 110, 103, 83, 117, 98, 115, 116, 97, 116, 101, 109,
    101, 110, 116>>)>>), Call("NT", <<StrLit(<<76, 97, 98, 101, 108, 101, 100,
    83, 116, 97, 116, 101, 109, 101, 110, 116>>)>>), Call("NT", <<StrLit(<<73,
    102, 84, 104, 101, 110, 83, 116, 97, 116, 101, 109, 101, 110, 116>>)>>),
    Call("NT", <<StrLit(<<73, 102, 84, 104, 101, 110, 69, 108, 115, 101, 83,
    116, 97, 116, 101, 109, 101, 110, 116>>)>>), Call("NT", <<StrLit(<<87, 104,
    105, 108, 101, 83, 116, 97, 116, 101, 109, 101, 110, 116>>)>>), Call("NT",
    <<StrLit(<<70, 111, 114, 83, 116, 97, 116, 101, 109, 101, 110,
    116>>)>>)>>)>>)],
  \* lines 1310-1320: rules.set("StatementNoShortIf", () =>
  \* D(Ch(0, NT("StatementWithoutTrailingSubstatement"), NT(
  \* "LabeledStatementNoShortIf"), NT("IfThenElseStatementNoShortIf"), NT(
  \* "WhileStatementNoShortIf"), NT("ForStatementNoShortIf")))
  [name |-> <<83, 116, 97, 116, 101, 109, 101, 110, 116, 78, 111, 83, 104, 111,
    114, 116, 73, 102>>,
   body |-> Call("D", <<Call("Ch", <<NumLit(0), Call("NT", <<StrLit(<<83, 116,
    97, 116, 101, 109, 101, 110, 116, 87, 105, 116, 104, 111, 117, 116, 84,
    114, 97, 105, 108, 105, 110, 103, 83, 117, 98, 115, 116, 97, 116, 101, 109,
    101, 110, 116>>)>>), Call("NT", <<StrLit(<<76, 97, 98, 101, 108, 101, 100,
    83, 116, 97, 116, 101, 109, 101, 110, 116, 78, 111, 83, 104, 111, 114, 116,
    73, 102>>)>>), Call("NT", <<StrLit(<<73, 102, 84, 104, 101, 110, 69, 108,
    115, 101, 83, 116, 97, 116, 101, 109, 101, 110, 116, 78, 111, 83, 104, 111,
    114, 116, 73, 102>>)>>), Call("NT", <<StrLit(<<87, 104, 105, 108, 101, 83,
    116, 97, 116, 101, 109, 101, 110, 116, 78, 111, 83, 104, 111, 114, 116, 73,
    102>>)>>), Call("NT", <<StrLit(<<70, 111, 114, 83, 116, 97, 116, 101, 109,
    101, 110, 116, 78, 111, 83, 104, 111, 114, 116, 73, 102>>)>>)>>)>>)],
  \* lines 1322-1340: rules.set("StatementWithoutTrailingSubstatement", () =>
  \* D(Ch(0, NT("Block"), NT("EmptyStatement"), NT("ExpressionStatement"), NT(
  \* "AssertStatement"), NT("SwitchStatement"), NT("DoStatement"), NT(
  \* "BreakStatement"), NT("ContinueStatement"), NT("ReturnStatement"), NT(
  \* "SynchronizedStatement"), NT("ThrowStatement"), NT("TryStatement"), NT(
  \* "YieldStatement")))
  [name |-> <<83, 116, 97, 116, 101, 109, 101, 110, 116, 87, 105, 116, 104,
    111, 117, 116, 84, 114, 97, 105, 108, 105, 110, 103, 83, 117, 98, 115, 116,
    97, 116, 101, 109, 101, 110, 116>>,
   body |-> Call("D", <<Call("Ch", <<NumLit(0), Call("NT", <<StrLit(<<66, 108,
    111, 99, 107>>)>>), Call("NT", <<StrLit(<<69, 109, 112, 116, 121, 83, 116,
    97, 116, 101, 109, 101, 110, 116>>)>>), Call("NT", <<StrLit(<<69, 120, 112,
    114, 101, 115, 115, 105, 111, 110, 83, 116, 97, 116, 101, 109, 101, 110,
    116>>)>>), Call("NT", <<StrLit(<<65, 115, 115, 101, 114, 116, 83, 116, 97,
    116, 101, 109, 101, 110, 116>>)>>), Call("NT", <<StrLit(<<83, 119, 105,
    116, 99, 104, 83, 116, 97, 116, 101, 109, 101, 110, 116>>)>>), Call("NT",
    <<StrLit(<<68, 111, 83, 116, 97, 116, 101, 109, 101, 110, 116>>)>>),
    Call("NT", <<StrLit(<<66, 114, 101, 97, 107, 83, 116, 97, 116, 101, 109,
    101, 110, 116>>)>>), Call("NT", <<StrLit(<<67, 111, 110, 116, 105, 110,
    117, 101, 83, 116, 97, 116, 101, 109, 101, 110, 116>>)>>), Call("NT",
    <<StrLit(<<82, 101, 116, 117, 114, 110, 83, 116, 97, 116, 101, 109, 101,
    110, 116>>)>>), Call("NT", <<StrLit(<<83, 121, 110, 99, 104, 114, 111, 110,
    105, 122, 101, 100, 83, 116, 97, 116, 101, 109, 101, 110, 116>>)>>),
    Call("NT", <<StrLit(<<84, 104, 114, 111, 119, 83, 116, 97, 116, 101, 109,
    101, 110, 116>>)>>), Call("NT", <<StrLit(<<84, 114, 121, 83, 116, 97, 116,
    101, 109, 101, 110, 116>>)>>), Call("NT", <<StrLit(<<89, 105, 101, 108,
    100, 83, 116, 97, 116, 101, 109, 101, 110, 116>>)>>)>>)>>)],
  \* lines 1342-1344: rules.set("EmptyStatement", () =>
  \* D(T(";"))
  [name |-> <<69, 109, 112, 116, 121, 83, 116, 97, 116, 101, 109, 101, 110,
    116>>,
   body |-> Call("D", <<Call("T", <<StrLit(<<59>>)>>)>>)],
  \* lines 1346-1348: rules.set("LabeledStatement", () =>
  \* D(Seq(NT("Identifier"), T(":"), NT("Statement")))
  [name |-> <<76, 97, 98, 101, 108, 101, 100, 83, 116, 97, 116, 101, 109, 101,
    110, 116>>,
   body |-> Call("D", <<Call("Seq", <<Call("NT", <<StrLit(<<73, 100, 101, 110,
    116, 105, 102, 105, 101, 114>>)>>), Call("T", <<StrLit(<<58>>)>>),
    Call("NT", <<StrLit(<<83, 116, 97, 116, 101, 109, 101, 110,
    116>>)>>)>>)>>)],
  \* lines 1350-1352: rules.set("LabeledStatementNoShortIf", () =>
  \* D(Seq(NT("Identifier"), T(":"), NT("StatementNoShortIf")))
  [name |-> <<76, 97, 98, 101, 108, 101, 100, 83, 116, 97, 116, 101, 109, 101,
    110, 116, 78, 111, 83, 104, 111, 114, 116, 73, 102>>,
   body |-> Call("D", <<Call("Seq", <<Call("NT", <<StrLit(<<73, 100, 101, 110,
    116, 105, 102, 105, 101, 114>>)>>), Call("T", <<StrLit(<<58>>)>>),
    Call("NT", <<StrLit(<<83, 116, 97, 116, 101, 109, 101, 110, 116, 78, 111,
    83, 104, 111, 114, 116, 73, 102>>)>>)>>)>>)],
  \* lines 1354-1356: rules.set("ExpressionStatement", () =>
  \* D(Seq(NT("StatementExpression"), T(";")))
  [name |-> <<69, 120, 112, 114, 101, 115, 115, 105, 111, 110, 83, 116, 97,
    116, 101, 109, 101, 110, 116>>,
   body |-> Call("D", <<Call("Seq", <<Call("NT", <<StrLit(<<83, 116, 97, 116,
    101, 109, 101, 110, 116, 69, 120, 112, 114, 101, 115, 115, 105, 111,
    110>>)>>), Call("T", <<StrLit(<<59>>)>>)>>)>>)],
  \* lines 1358-1370: rules.set("StatementExpression", () =>
  \* D(Ch(0, NT("Assignment"), NT("PreIncrementExpression"), NT(
  \* "PreDecrementExpression"), NT("PostIncrementExpression"), NT(
  \* "PostDecrementExpression"), NT("MethodInvocation"), NT(
  \* "ClassInstanceCreationExpression")))
  [name |-> <<83, 116, 97, 116, 101, 109, 101, 110, 116, 69, 120, 112, 114,
    101, 115, 115, 105, 111, 110>>,
   body |-> Call("D", <<Call("Ch", <<NumLit(0), Call("NT", <<StrLit(<<65, 115,
    115, 105, 103, 110, 109, 101, 110, 116>>)>>), Call("NT", <<StrLit(<<80,
    114, 101, 73, 110, 99, 114, 101, 109, 101, 110, 116, 69, 120, 112, 114,
    101, 115, 115, 105, 111, 110>>)>>), Call("NT", <<StrLit(<<80, 114, 101, 68,
    101, 99, 114, 101, 109, 101, 110, 116, 69, 120, 112, 114, 101, 115, 115,
    105, 111, 110>>)>>), Call("NT", <<StrLit(<<80, 111, 115, 116, 73, 110, 99,
    114, 101, 109, 101, 110, 116, 69, 120, 112, 114, 101, 115, 115, 105, 111,
    110>>)>>), Call("NT", <<StrLit(<<80, 111, 115, 116, 68, 101, 99, 114, 101,
    109, 101, 110, 116, 69, 120, 112, 114, 101, 115, 115, 105, 111, 110>>)>>),
    Call("NT", <<StrLit(<<77, 101, 116, 104, 111, 100, 73, 110, 118, 111, 99,
    97, 116, 105, 111, 110>>)>>), Call("NT", <<StrLit(<<67, 108, 97, 115, 115,
    73, 110, 115, 116, 97, 110, 99, 101, 67, 114, 101, 97, 116, 105, 111, 110,
    69, 120, 112, 114, 101, 115, 115, 105, 111, 110>>)>>)>>)>>)],
  \* lines 1372-1374: rules.set("IfThenStatement", () =>
  \* D(Seq(T("if"), T("("), NT("Expression"), T(")"), NT("Statement")))
  [name |-> <<73, 102, 84, 104, 101, 110, 83, 116, 97, 116, 101, 109, 101, 110,
    116>>,
   body |-> Call("D", <<Call("Seq", <<Call("T", <<StrLit(<<105, 102>>)>>),
    Call("T", <<StrLit(<<40>>)>>), Call("NT", <<StrLit(<<69, 120, 112, 114,
    101, 115, 115, 105, 111, 110>>)>>), Call("T", <<StrLit(<<41>>)>>),
    Call("NT", <<StrLit(<<83, 116, 97, 116, 101, 109, 101, 110,
    116>>)>>)>>)>>)],
  \* lines 1376-1378: rules.set("IfThenElseStatement", () =>
  \* D(Seq(T("if"), T("("), NT("Expression"), T(")"), NT("StatementNoShortIf"
  \* ), T("else"), NT("Statement")))
  [name |-> <<73, 102, 84, 104, 101, 110, 69, 108, 115, 101, 83, 116, 97, 116,
    101, 109, 101, 110, 116>>,
   body |-> Call("D", <<Call("Seq", <<Call("T", <<StrLit(<<105, 102>>)>>),
    Call("T", <<StrLit(<<40>>)>>), Call("NT", <<StrLit(<<69, 120, 112, 114,
    101, 115, 115, 105, 111, 110>>)>>), Call("T", <<StrLit(<<41>>)>>),
    Call("NT", <<StrLit(<<83, 116, 97, 116, 101, 109, 101, 110, 116, 78, 111,
    83, 104, 111, 114, 116, 73, 102>>)>>), Call("T", <<StrLit(<<101, 108, 115,
    101>>)>>), Call("NT", <<StrLit(<<83, 116, 97, 116, 101, 109, 101, 110,
    116>>)>>)>>)>>)],
  \* lines 1380-1382: rules.set("IfThenElseStatementNoShortIf", () =>
  \* D(Seq(T("if"), T("("), NT("Expression"), T(")"), NT("StatementNoShortIf"
  \* ), T("else"), NT("StatementNoShortIf")))
  [name |-> <<73, 102, 84, 104, 101, 110, 69, 108, 115, 101, 83, 116, 97, 116,
    101, 109, 101, 110, 116, 78, 111, 83, 104, 111, 114, 116, 73, 102>>,
   body |-> Call("D", <<Call("Seq", <<Call("T", <<StrLit(<<105, 102>>)>>),
    Call("T", <<StrLit(<<40>>)>>), Call("NT", <<StrLit(<<69, 120, 112, 114,
    101, 115, 115, 105, 111, 110>>)>>), Call("T", <<StrLit(<<41>>)>>),
    Call("NT", <<StrLit(<<83, 116, 97, 116, 101, 109, 101, 110, 116, 78, 111,
    83, 104, 111, 114, 116, 73, 102>>)>>), Call("T", <<StrLit(<<101, 108, 115,
    101>>)>>), Call("NT", <<StrLit(<<83, 116, 97, 116, 101, 109, 101, 110, 116,
    78, 111, 83, 104, 111, 114, 116, 73, 102>>)>>)>>)>>)],
  \* lines 1384-1391: rules.set("AssertStatement", () =>
  \* D(Ch(0, Seq(T("assert"), NT("Expression"), T(";")), Seq(T("assert"), NT(
  \* "Expression"), T(":"), NT("Expression"), T(";"))))
  [name |-> <<65, 115, 115, 101, 114, 116, 83, 116, 97, 116, 101, 109, 101,
    110, 116>>,
   body |-> Call("D", <<Call("Ch", <<NumLit(0), Call("Seq", <<Call("T",
    <<StrLit(<<97, 115, 115, 101, 114, 116>>)>>), Call("NT", <<StrLit(<<69,
    120, 112, 114, 101, 115, 115, 105, 111, 110>>)>>), Call("T",
    <<StrLit(<<59>>)>>)>>), Call("Seq", <<Call("T", <<StrLit(<<97, 115, 115,
    101, 114, 116>>)>>), Call("NT", <<StrLit(<<69, 120, 112, 114, 101, 115,
    115, 105, 111, 110>>)>>), Call("T", <<StrLit(<<58>>)>>), Call("NT",
    <<StrLit(<<69, 120, 112, 114, 101, 115, 115, 105, 111, 110>>)>>), Call("T",
    <<StrLit(<<59>>)>>)>>)>>)>>)],
  \* lines 1393-1395: rules.set("SwitchStatement", () =>
  \* D(Seq(T("switch"), T("("), NT("Expression"), T(")"), NT("SwitchBlock")))
  [name |-> <<83, 119, 105, 116, 99, 104, 83, 116, 97, 116, 101, 109, 101, 110,
    116>>,
   body |-> Call("D", <<Call("Seq", <<Call("T", <<StrLit(<<115, 119, 105, 116,
    99, 104>>)>>), Call("T", <<StrLit(<<40>>)>>), Call("NT", <<StrLit(<<69,
    120, 112, 114, 101, 115, 115, 105, 111, 110>>)>>), Call("T",
    <<StrLit(<<41>>)>>), Call("NT", <<StrLit(<<83, 119, 105, 116, 99, 104, 66,
    108, 111, 99, 107>>)>>)>>)>>)],
  \* lines 1397-1404: rules.set("SwitchBlock", () =>
  \* D(Ch(0, Seq(T("{"), OOM(NT("SwitchRule")), T("}")), Seq(T("{"), ZOM(NT(
  \* "SwitchBlockStatementGroup")), ZOM(Seq(NT("SwitchLabel"), T(":"))), T("}"
  \* ))))
  [name |-> <<83, 119, 105, 116, 99, 104, 66, 108, 111, 99, 107>>,
   body |-> Call("D", <<Call("Ch", <<NumLit(0), Call("Seq", <<Call("T",
    <<StrLit(<<123>>)>>), Call("OOM", <<Call("NT", <<StrLit(<<83, 119, 105,
    116, 99, 104, 82, 117, 108, 101>>)>>)>>), Call("T",
    <<StrLit(<<125>>)>>)>>), Call("Seq", <<Call("T", <<StrLit(<<123>>)>>),
    Call("ZOM", <<Call("NT", <<StrLit(<<83, 119, 105, 116, 99, 104, 66, 108,
    111, 99, 107, 83, 116, 97, 116, 101, 109, 101, 110, 116, 71, 114, 111, 117,
    112>>)>>)>>), Call("ZOM", <<Call("Seq", <<Call("NT", <<StrLit(<<83, 119,
    105, 116, 99, 104, 76, 97, 98, 101, 108>>)>>), Call("T",
    <<StrLit(<<58>>)>>)>>)>>), Call("T", <<StrLit(<<125>>)>>)>>)>>)>>)],
  \* lines 1406-1414: rules.set("SwitchRule", () =>
  \* D(Ch(0, Seq(NT("SwitchLabel"), T("->"), NT("Expression"), T(";")), Seq(
  \* NT("SwitchLabel"), T("->"), NT("Block")), Seq(NT("SwitchLabel"), T("->"),
  \* NT("ThrowStatement"))))
  [name |-> <<83, 119, 105, 116, 99, 104, 82, 117, 108, 101>>,
   body |-> Call("D", <<Call("Ch", <<NumLit(0), Call("Seq", <<Call("NT",
    <<StrLit(<<83, 119, 105, 116, 99, 104, 76, 97, 98, 101, 108>>)>>),
    Call("T", <<StrLit(<<45, 62>>)>>), Call("NT", <<StrLit(<<69, 120, 112, 114,
    101, 115, 115, 105, 111, 110>>)>>), Call("T", <<StrLit(<<59>>)>>)>>),
    Call("Seq", <<Call("NT", <<StrLit(<<83, 119, 105, 116, 99, 104, 76, 97, 98,
    101, 108>>)>>), Call("T", <<StrLit(<<45, 62>>)>>), Call("NT",
    <<StrLit(<<66, 108, 111, 99, 107>>)>>)>>), Call("Seq", <<Call("NT",
    <<StrLit(<<83, 119, 105, 116, 99, 104, 76, 97, 98, 101, 108>>)>>),
    Call("T", <<StrLit(<<45, 62>>)>>), Call("NT", <<StrLit(<<84, 104, 114, 111,
    119, 83, 116, 97, 116, 101, 109, 101, 110, 116>>)>>)>>)>>)>>)],
  \* lines 1416-1418: rules.set("SwitchBlockStatementGroup", () =>
  \* D(Seq(NT("SwitchLabel"), T(":"), ZOM(Seq(NT("SwitchLabel"), T(":"))), NT(
  \* "BlockStatements")))
  [name |-> <<83, 119, 105, 116, 99, 104, 66, 108, 111, 99, 107, 83, 116, 97,
    116, 101, 109, 101, 110, 116, 71, 114, 111, 117, 112>>,
   body |-> Call("D", <<Call("Seq", <<Call("NT", <<StrLit(<<83, 119, 105, 116,
    99, 104, 76, 97, 98, 101, 108>>)>>), Call("T", <<StrLit(<<58>>)>>),
    Call("ZOM", <<Call("Seq", <<Call("NT", <<StrLit(<<83, 119, 105, 116, 99,
    104, 76, 97, 98, 101, 108>>)>>), Call("T", <<StrLit(<<58>>)>>)>>)>>),
    Call("NT", <<StrLit(<<66, 108, 111, 99, 107, 83, 116, 97, 116, 101, 109,
    101, 110, 116, 115>>)>>)>>)>>)],
  \* lines 1420-1429: rules.set("SwitchLabel", () =>
  \* D(Ch(0, Seq(T("case"), NT("CaseConstant"), ZOM(Seq(T(","), NT(
  \* "CaseConstant")))), Seq(T("case"), T("null"), Opt(Seq(T(","), T("default"
  \* )))), Seq(T("case"), NT("CasePattern"), ZOM(Seq(T(","), NT("CasePattern")
  \* )), Opt(NT("Guard"))), T("default")))
  [name |-> <<83, 119, 105, 116, 99, 104, 76, 97, 98, 101, 108>>,
   body |-> Call("D", <<Call("Ch", <<NumLit(0), Call("Seq", <<Call("T",
    <<StrLit(<<99, 97, 115, 101>>)>>), Call("NT", <<StrLit(<<67, 97, 115, 101,
    67, 111, 110, 115, 116, 97, 110, 116>>)>>), Call("ZOM", <<Call("Seq",
    <<Call("T", <<StrLit(<<44>>)>>), Call("NT", <<StrLit(<<67, 97, 115, 101,
    67, 111, 110, 115, 116, 97, 110, 116>>)>>)>>)>>)>>), Call("Seq",
    <<Call("T", <<StrLit(<<99, 97, 115, 101>>)>>), Call("T", <<StrLit(<<110,
    117, 108, 108>>)>>), Call("Opt", <<Call("Seq", <<Call("T",
    <<StrLit(<<44>>)>>), Call("T", <<StrLit(<<100, 101, 102, 97, 117, 108,
    116>>)>>)>>)>>)>>), Call("Seq", <<Call("T", <<StrLit(<<99, 97, 115,
    101>>)>>), Call("NT", <<StrLit(<<67, 97, 115, 101, 80, 97, 116, 116, 101,
    114, 110>>)>>), Call("ZOM", <<Call("Seq", <<Call("T", <<StrLit(<<44>>)>>),
    Call("NT", <<StrLit(<<67, 97, 115, 101, 80, 97, 116, 116, 101, 114,
    110>>)>>)>>)>>), Call("Opt", <<Call("NT", <<StrLit(<<71, 117, 97, 114,
    100>>)>>)>>)>>), Call("T", <<StrLit(<<100, 101, 102, 97, 117, 108,
    116>>)>>)>>)>>)],
  \* lines 1431-1433: rules.set("CaseConstant", () =>
  \* D(NT("ConditionalExpression"))
  [name |-> <<67, 97, 115, 101, 67, 111, 110, 115, 116, 97, 110, 116>>,
   body |-> Call("D", <<Call("NT", <<StrLit(<<67, 111, 110, 100, 105, 116, 105,
    111, 110, 97, 108, 69, 120, 112, 114, 101, 115, 115, 105, 111,
    110>>)>>)>>)],
  \* lines 1435-1437: rules.set("CasePattern", () =>
  \* D(NT("Pattern"))
  [name |-> <<67, 97, 115, 101, 80, 97, 116, 116, 101, 114, 110>>,
   body |-> Call("D", <<Call("NT", <<StrLit(<<80, 97, 116, 116, 101, 114,
    110>>)>>)>>)],
  \* lines 1439-1441: rules.set("Guard", () =>
  \* D(Seq(T("when"), NT("Expression")))
  [name |-> <<71, 117, 97, 114, 100>>,
   body |-> Call("D", <<Call("Seq", <<Call("T", <<StrLit(<<119, 104, 101,
    110>>)>>), Call("NT", <<StrLit(<<69, 120, 112, 114, 101, 115, 115, 105,
    111, 110>>)>>)>>)>>)],
  \* lines 1443-1445: rules.set("WhileStatement", () =>
  \* D(Seq(T("while"), T("("), NT("Expression"), T(")"), NT("Statement")))
  [name |-> <<87, 104, 105, 108, 101, 83, 116, 97, 116, 101, 109, 101, 110,
    116>>,
   body |-> Call("D", <<Call("Seq", <<Call("T", <<StrLit(<<119, 104, 105, 108,
    101>>)>>), Call("T", <<StrLit(<<40>>)>>), Call("NT", <<StrLit(<<69, 120,
    112, 114, 101, 115, 115, 105, 111, 110>>)>>), Call("T",
    <<StrLit(<<41>>)>>), Call("NT", <<StrLit(<<83, 116, 97, 116, 101, 109, 101,
    110, 116>>)>>)>>)>>)],
  \* lines 1447-1449: rules.set("WhileStatementNoShortIf", () =>
  \* D(Seq(T("while"), T("("), NT("Expression"), T(")"), NT(
  \* "StatementNoShortIf")))
  [name |-> <<87, 104, 105, 108, 101, 83, 116, 97, 116, 101, 109, 101, 110,
    116, 78, 111, 83, 104, 111, 114, 116, 73, 102>>,
   body |-> Call("D", <<Call("Seq", <<Call("T", <<StrLit(<<119, 104, 105, 108,
    101>>)>>), Call("T", <<StrLit(<<40>>)>>), Call("NT", <<StrLit(<<69, 120,
    112, 114, 101, 115, 115, 105, 111, 110>>)>>), Call("T",
    <<StrLit(<<41>>)>>), Call("NT", <<StrLit(<<83, 116, 97, 116, 101, 109, 101,
    110, 116, 78, 111, 83, 104, 111, 114, 116, 73, 102>>)>>)>>)>>)],
  \* lines 1451-1453: rules.set("DoStatement", () =>
  \* D(Seq(T("do"), NT("Statement"), T("while"), T("("), NT("Expression"), T(
  \* ")"), T(";")))
  [name |-> <<68, 111, 83, 116, 97, 116, 101, 109, 101, 110, 116>>,
   body |-> Call("D", <<Call("Seq", <<Call("T", <<StrLit(<<100, 111>>)>>),
    Call("NT", <<StrLit(<<83, 116, 97, 116, 101, 109, 101, 110, 116>>)>>),
    Call("T", <<StrLit(<<119, 104, 105, 108, 101>>)>>), Call("T",
    <<StrLit(<<40>>)>>), Call("NT", <<StrLit(<<69, 120, 112, 114, 101, 115,
    115, 105, 111, 110>>)>>), Call("T", <<StrLit(<<41>>)>>), Call("T",
    <<StrLit(<<59>>)>>)>>)>>)],
  \* lines 1455-1457: rules.set("ForStatement", () =>
  \* D(Ch(0, NT("BasicForStatement"), NT("EnhancedForStatement")))
  [name |-> <<70, 111, 114, 83, 116, 97, 116, 101, 109, 101, 110, 116>>,
   body |-> Call("D", <<Call("Ch", <<NumLit(0), Call("NT", <<StrLit(<<66, 97,
    115, 105, 99, 70, 111, 114, 83, 116, 97, 116, 101, 109, 101, 110,
    116>>)>>), Call("NT", <<StrLit(<<69, 110, 104, 97, 110, 99, 101, 100, 70,
    111, 114, 83, 116, 97, 116, 101, 109, 101, 110, 116>>)>>)>>)>>)],
  \* lines 1459-1461: rules.set("ForStatementNoShortIf", () =>
  \* D(Ch(0, NT("BasicForStatementNoShortIf"), NT(
  \* "EnhancedForStatementNoShortIf")))
  [name |-> <<70, 111, 114, 83, 116, 97, 116, 101, 109, 101, 110, 116, 78, 111,
    83, 104, 111, 114, 116, 73, 102>>,
   body |-> Call("D", <<Call("Ch", <<NumLit(0), Call("NT", <<StrLit(<<66, 97,
    115, 105, 99, 70, 111, 114, 83, 116, 97, 116, 101, 109, 101, 110, 116, 78,
    111, 83, 104, 111, 114, 116, 73, 102>>)>>), Call("NT", <<StrLit(<<69, 110,
    104, 97, 110, 99, 101, 100, 70, 111, 114, 83, 116, 97, 116, 101, 109, 101,
    110, 116, 78, 111, 83, 104, 111, 114, 116, 73, 102>>)>>)>>)>>)],
  \* lines 1463-1465: rules.set("BasicForStatement", () =>
  \* D(Seq(T("for"), T("("), Opt(NT("ForInit")), T(";"), Opt(NT("Expression")
  \* ), T(";"), Opt(NT("ForUpdate")), T(")"), NT("Statement")))
  [name |-> <<66, 97, 115, 105, 99, 70, 111, 114, 83, 116, 97, 116, 101, 109,
    101, 110, 116>>,
   body |-> Call("D", <<Call("Seq", <<Call("T", <<StrLit(<<102, 111, 114>>)>>),
    Call("T", <<StrLit(<<40>>)>>), Call("Opt", <<Call("NT", <<StrLit(<<70, 111,
    114, 73, 110, 105, 116>>)>>)>>), Call("T", <<StrLit(<<59>>)>>), Call("Opt",
    <<Call("NT", <<StrLit(<<69, 120, 112, 114, 101, 115, 115, 105, 111,
    110>>)>>)>>), Call("T", <<StrLit(<<59>>)>>), Call("Opt", <<Call("NT",
    <<StrLit(<<70, 111, 114, 85, 112, 100, 97, 116, 101>>)>>)>>), Call("T",
    <<StrLit(<<41>>)>>), Call("NT", <<StrLit(<<83, 116, 97, 116, 101, 109, 101,
    110, 116>>)>>)>>)>>)],
  \* lines 1467-1469: rules.set("BasicForStatementNoShortIf", () =>
  \* D(Seq(T("for"), T("("), Opt(NT("ForInit")), T(";"), Opt(NT("Expression")
  \* ), T(";"), Opt(NT("ForUpdate")), T(")"), NT("StatementNoShortIf")))
  [name |-> <<66, 97, 115, 105, 99, 70, 111, 114, 83, 116, 97, 116, 101, 109,
    101, 110, 116, 78, 111, 83, 104, 111, 114, 116, 73, 102>>,
   body |-> Call("D", <<Call("Seq", <<Call("T", <<StrLit(<<102, 111, 114>>)>>),
    Call("T", <<StrLit(<<40>>)>>), Call("Opt", <<Call("NT", <<StrLit(<<70, 111,
    114, 73, 110, 105, 116>>)>>)>>), Call("T", <<StrLit(<<59>>)>>), Call("Opt",
    <<Call("NT", <<StrLit(<<69, 120, 112, 114, 101, 115, 115, 105, 111,
    110>>)>>)>>), Call("T", <<StrLit(<<59>>)>>), Call("Opt", <<Call("NT",
    <<StrLit(<<70, 111, 114, 85, 112, 100, 97, 116, 101>>)>>)>>), Call("T",
    <<StrLit(<<41>>)>>), Call("NT", <<StrLit(<<83, 116, 97, 116, 101, 109, 101,
    110, 116, 78, 111, 83, 104, 111, 114, 116, 73, 102>>)>>)>>)>>)],
  \* lines 1471-1473: rules.set("ForInit", () =>
  \* D(Ch(0, NT("StatementExpressionList"), NT("LocalVariableDeclaration")))
  [name |-> <<70, 111, 114, 73, 110, 105, 116>>,
   body |-> Call("D", <<Call("Ch", <<NumLit(0), Call("NT", <<StrLit(<<83, 116,
    97, 116, 101, 109, 101, 110, 116, 69, 120, 112, 114, 101, 115, 115, 105,
    111, 110, 76, 105, 115, 116>>)>>), Call("NT", <<StrLit(<<76, 111, 99, 97,
    108, 86, 97, 114, 105, 97, 98, 108, 101, 68, 101, 99, 108, 97, 114, 97,
    116, 105, 111, 110>>)>>)>>)>>)],
  \* lines 1475-1477: rules.set("ForUpdate", () =>
  \* D(NT("StatementExpressionList"))
  [name |-> <<70, 111, 114, 85, 112, 100, 97, 116, 101>>,
   body |-> Call("D", <<Call("NT", <<StrLit(<<83, 116, 97, 116, 101, 109, 101,
    110, 116, 69, 120, 112, 114, 101, 115, 115, 105, 111, 110, 76, 105, 115,
    116>>)>>)>>)],
  \* lines 1479-1481: rules.set("StatementExpressionList", () =>
  \* D(Seq(NT("StatementExpression"), ZOM(Seq(T(","), NT("StatementExpression"
  \* )))))
  [name |-> <<83, 116, 97, 116, 101, 109, 101, 110, 116, 69, 120, 112, 114,
    101, 115, 115, 105, 111, 110, 76, 105, 115, 116>>,
   body |-> Call("D", <<Call("Seq", <<Call("NT", <<StrLit(<<83, 116, 97, 116,
    101, 109, 101, 110, 116, 69, 120, 112, 114, 101, 115, 115, 105, 111,
    110>>)>>), Call("ZOM", <<Call("Seq", <<Call("T", <<StrLit(<<44>>)>>),
    Call("NT", <<StrLit(<<83, 116, 97, 116, 101, 109, 101, 110, 116, 69, 120,
    112, 114, 101, 115, 115, 105, 111, 110>>)>>)>>)>>)>>)>>)],
  \* lines 1483-1485: rules.set("EnhancedForStatement", () =>
  \* D(Seq(T("for"), T("("), NT("LocalVariableDeclaration"), T(":"), NT(
  \* "Expression"), T(")"), NT("Statement")))
  [name |-> <<69, 110, 104, 97, 110, 99, 101, 100, 70, 111, 114, 83, 116, 97,
    116, 101, 109, 101, 110, 116>>,
   body |-> Call("D", <<Call("Seq", <<Call("T", <<StrLit(<<102, 111, 114>>)>>),
    Call("T", <<StrLit(<<40>>)>>), Call("NT", <<StrLit(<<76, 111, 99, 97, 108,
    86, 97, 114, 105, 97, 98, 108, 101, 68, 101, 99, 108, 97, 114, 97, 116,
    105, 111, 110>>)>>), Call("T", <<StrLit(<<58>>)>>), Call("NT",
    <<StrLit(<<69, 120, 112, 114, 101, 115, 115, 105, 111, 110>>)>>), Call("T",
    <<StrLit(<<41>>)>>), Call("NT", <<StrLit(<<83, 116, 97, 116, 101, 109, 101,
    110, 116>>)>>)>>)>>)],
  \* lines 1487-1489: rules.set("EnhancedForStatementNoShortIf", () =>
  \* D(Seq(T("for"), T("("), NT("LocalVariableDeclaration"), T(":"), NT(
  \* "Expression"), T(")"), NT("StatementNoShortIf")))
  [name |-> <<69, 110, 104, 97, 110, 99, 101, 100, 70, 111, 114, 83, 116, 97,
    116, 101, 109, 101, 110, 116, 78, 111, 83, 104, 111, 114, 116, 73, 102>>,
   body |-> Call("D", <<Call("Seq", <<Call("T", <<StrLit(<<102, 111, 114>>)>>),
    Call("T", <<StrLit(<<40>>)>>), Call("NT", <<StrLit(<<76, 111, 99, 97, 108,
    86, 97, 114, 105, 97, 98, 108, 101, 68, 101, 99, 108, 97, 114, 97, 116,
    105, 111, 110>>)>>), Call("T", <<StrLit(<<58>>)>>), Call("NT",
    <<StrLit(<<69, 120, 112, 114, 101, 115, 115, 105, 111, 110>>)>>), Call("T",
    <<StrLit(<<41>>)>>), Call("NT", <<StrLit(<<83, 116, 97, 116, 101, 109, 101,
    110, 116, 78, 111, 83, 104, 111, 114, 116, 73, 102>>)>>)>>)>>)],
  \* lines 1491-1493: rules.set("BreakStatement", () =>
  \* D(Seq(T("break"), Opt(NT("Identifier")), T(";")))
  [name |-> <<66, 114, 101, 97, 107, 83, 116, 97, 116, 101, 109, 101, 110,
    116>>,
   body |-> Call("D", <<Call("Seq", <<Call("T", <<StrLit(<<98, 114, 101, 97,
    107>>)>>), Call("Opt", <<Call("NT", <<StrLit(<<73, 100, 101, 110, 116, 105,
    102, 105, 101, 114>>)>>)>>), Call("T", <<StrLit(<<59>>)>>)>>)>>)],
  \* lines 1495-1497: rules.set("YieldStatement", () =>
  \* D(Seq(T("yield"), NT("Expression"), T(";")))
  [name |-> <<89, 105, 101, 108, 100, 83, 116, 97, 116, 101, 109, 101, 110,
    116>>,
   body |-> Call("D", <<Call("Seq", <<Call("T", <<StrLit(<<121, 105, 101, 108,
    100>>)>>), Call("NT", <<StrLit(<<69, 120, 112, 114, 101, 115, 115, 105,
    111, 110>>)>>), Call("T", <<StrLit(<<59>>)>>)>>)>>)],
  \* lines 1499-1501: rules.set("ContinueStatement", () =>
  \* D(Seq(T("continue"), Opt(NT("Identifier")), T(";")))
  [name |-> <<67, 111, 110, 116, 105, 110, 117, 101, 83, 116, 97, 116, 101,
    109, 101, 110, 116>>,
   body |-> Call("D", <<Call("Seq", <<Call("T", <<StrLit(<<99, 111, 110, 116,
    105, 110, 117, 101>>)>>), Call("Opt", <<Call("NT", <<StrLit(<<73, 100, 101,
    110, 116, 105, 102, 105, 101, 114>>)>>)>>), Call("T",
    <<StrLit(<<59>>)>>)>>)>>)],
  \* lines 1503-1505: rules.set("ReturnStatement", () =>
  \* D(Seq(T("return"), Opt(NT("Expression")), T(";")))
  [name |-> <<82, 101, 116, 117, 114, 110, 83, 116, 97, 116, 101, 109, 101,
    110, 116>>,
   body |-> Call("D", <<Call("Seq", <<Call("T", <<StrLit(<<114, 101, 116, 117,
    114, 110>>)>>), Call("Opt", <<Call("NT", <<StrLit(<<69, 120, 112, 114, 101,
    115, 115, 105, 111, 110>>)>>)>>), Call("T", <<StrLit(<<59>>)>>)>>)>>)],
  \* lines 1507-1509: rules.set("ThrowStatement", () =>
  \* D(Seq(T("throw"), NT("Expression"), T(";")))
  [name |-> <<84, 104, 114, 111, 119, 83, 116, 97, 116, 101, 109, 101, 110,
    116>>,
   body |-> Call("D", <<Call("Seq", <<Call("T", <<StrLit(<<116, 104, 114, 111,
    119>>)>>), Call("NT", <<StrLit(<<69, 120, 112, 114, 101, 115, 115, 105,
    111, 110>>)>>), Call("T", <<StrLit(<<59>>)>>)>>)>>)],
  \* lines 1511-1513: rules.set("SynchronizedStatement", () =>
  \* D(Seq(T("synchronized"), T("("), NT("Expression"), T(")"), NT("Block")))
  [name |-> <<83, 121, 110, 99, 104, 114, 111, 110, 105, 122, 101, 100, 83,
    116, 97, 116, 101, 109, 101, 110, 116>>,
   body |-> Call("D", <<Call("Seq", <<Call("T", <<StrLit(<<115, 121, 110, 99,
    104, 114, 111, 110, 105, 122, 101, 100>>)>>), Call("T",
    <<StrLit(<<40>>)>>), Call("NT", <<StrLit(<<69, 120, 112, 114, 101, 115,
    115, 105, 111, 110>>)>>), Call("T", <<StrLit(<<41>>)>>), Call("NT",
    <<StrLit(<<66, 108, 111, 99, 107>>)>>)>>)>>)],
  \* lines 1515-1523: rules.set("TryStatement", () =>
  \* D(Ch(0, Seq(T("try"), NT("Block"), NT("Catches")), Seq(T("try"), NT(
  \* "Block"), Opt(NT("Catches")), NT("Finally")), NT(
  \* "TryWithResourcesStatement")))
  [name |-> <<84, 114, 121, 83, 116, 97, 116, 101, 109, 101, 110, 116>>,
   body |-> Call("D", <<Call("Ch", <<NumLit(0), Call("Seq", <<Call("T",
    <<StrLit(<<116, 114, 121>>)>>), Call("NT", <<StrLit(<<66, 108, 111, 99,
    107>>)>>), Call("NT", <<StrLit(<<67, 97, 116, 99, 104, 101, 115>>)>>)>>),
    Call("Seq", <<Call("T", <<StrLit(<<116, 114, 121>>)>>), Call("NT",
    <<StrLit(<<66, 108, 111, 99, 107>>)>>), Call("Opt", <<Call("NT",
    <<StrLit(<<67, 97, 116, 99, 104, 101, 115>>)>>)>>), Call("NT",
    <<StrLit(<<70, 105, 110, 97, 108, 108, 121>>)>>)>>), Call("NT",
    <<StrLit(<<84, 114, 121, 87, 105, 116, 104, 82, 101, 115, 111, 117, 114,
    99, 101, 115, 83, 116, 97, 116, 101, 109, 101, 110, 116>>)>>)>>)>>)],
  \* lines 1525-1527: rules.set("Catches", () =>
  \* D(OOM(NT("CatchClause")))
  [name |-> <<67, 97, 116, 99, 104, 101, 115>>,
   body |-> Call("D", <<Call("OOM", <<Call("NT", <<StrLit(<<67, 97, 116, 99,
    104, 67, 108, 97, 117, 115, 101>>)>>)>>)>>)],
  \* lines 1529-1531: rules.set("CatchClause", () =>
  \* D(Seq(T("catch"), T("("), NT("CatchFormalParameter"), T(")"), NT("Block")
  \* ))
  [name |-> <<67, 97, 116, 99, 104, 67, 108, 97, 117, 115, 101>>,
   body |-> Call("D", <<Call("Seq", <<Call("T", <<StrLit(<<99, 97, 116, 99,
    104>>)>>), Call("T", <<StrLit(<<40>>)>>), Call("NT", <<StrLit(<<67, 97,
    116, 99, 104, 70, 111, 114, 109, 97, 108, 80, 97, 114, 97, 109, 101, 116,
    101, 114>>)>>), Call("T", <<StrLit(<<41>>)>>), Call("NT", <<StrLit(<<66,
    108, 111, 99, 107>>)>>)>>)>>)],
  \* lines 1533-1535: rules.set("CatchFormalParameter", () =>
  \* D(Seq(ZOM(NT("VariableModifier")), NT("CatchType"), NT(
  \* "VariableDeclaratorId")))
  [name |-> <<67, 97, 116, 99, 104, 70, 111, 114, 109, 97, 108, 80, 97, 114,
    97, 109, 101, 116, 101, 114>>,
   body |-> Call("D", <<Call("Seq", <<Call("ZOM", <<Call("NT", <<StrLit(<<86,
    97, 114, 105, 97, 98, 108, 101, 77, 111, 100, 105, 102, 105, 101,
    114>>)>>)>>), Call("NT", <<StrLit(<<67, 97, 116, 99, 104, 84, 121, 112,
    101>>)>>), Call("NT", <<StrLit(<<86, 97, 114, 105, 97, 98, 108, 101, 68,
    101, 99, 108, 97, 114, 97, 116, 111, 114, 73, 100>>)>>)>>)>>)],
  \* lines 1537-1539: rules.set("CatchType", () =>
  \* D(Seq(NT("UnannClassType"), ZOM(Seq(T("|"), NT("ClassType")))))
  [name |-> <<67, 97, 116, 99, 104, 84, 121, 112, 101>>,
   body |-> Call("D", <<Call("Seq", <<Call("NT", <<StrLit(<<85, 110, 97, 110,
    110, 67, 108, 97, 115, 115, 84, 121, 112, 101>>)>>), Call("ZOM",
    <<Call("Seq", <<Call("T", <<StrLit(<<124>>)>>), Call("NT", <<StrLit(<<67,
    108, 97, 115, 115, 84, 121, 112, 101>>)>>)>>)>>)>>)>>)],
  \* lines 1541-1543: rules.set("Finally", () =>
  \* D(Seq(T("finally"), NT("Block")))
  [name |-> <<70, 105, 110, 97, 108, 108, 121>>,
   body |-> Call("D", <<Call("Seq", <<Call("T", <<StrLit(<<102, 105, 110, 97,
    108, 108, 121>>)>>), Call("NT", <<StrLit(<<66, 108, 111, 99,
    107>>)>>)>>)>>)],
  \* lines 1545-1547: rules.set("TryWithResourcesStatement", () =>
  \* D(Seq(T("try"), NT("ResourceSpecification"), NT("Block"), Opt(NT(
  \* "Catches")), Opt(NT("Finally"))))
  [name |-> <<84, 114, 121, 87, 105, 116, 104, 82, 101, 115, 111, 117, 114, 99,
    101, 115, 83, 116, 97, 116, 101, 109, 101, 110, 116>>,
   body |-> Call("D", <<Call("Seq", <<Call("T", <<StrLit(<<116, 114, 121>>)>>),
    Call("NT", <<StrLit(<<82, 101, 115, 111, 117, 114, 99, 101, 83, 112, 101,
    99, 105, 102, 105, 99, 97, 116, 105, 111, 110>>)>>), Call("NT",
    <<StrLit(<<66, 108, 111, 99, 107>>)>>), Call("Opt", <<Call("NT",
    <<StrLit(<<67, 97, 116, 99, 104, 101, 115>>)>>)>>), Call("Opt",
    <<Call("NT", <<StrLit(<<70, 105, 110, 97, 108, 108, 121>>)>>)>>)>>)>>)],
  \* lines 1549-1551: rules.set("ResourceSpecification", () =>
  \* D(Seq(T("("), NT("ResourceList"), Opt(T(";")), T(")")))
  [name |-> <<82, 101, 115, 111, 117, 114, 99, 101, 83, 112, 101, 99, 105, 102,
    105, 99, 97, 116, 105, 111, 110>>,
   body |-> Call("D", <<Call("Seq", <<Call("T", <<StrLit(<<40>>)>>), Call("NT",
    <<StrLit(<<82, 101, 115, 111, 117, 114, 99, 101, 76, 105, 115, 116>>)>>),
    Call("Opt", <<Call("T", <<StrLit(<<59>>)>>)>>), Call("T",
    <<StrLit(<<41>>)>>)>>)>>)],
  \* lines 1553-1555: rules.set("ResourceList", () =>
  \* D(Seq(NT("Resource"), ZOM(Seq(T(";"), NT("Resource")))))
  [name |-> <<82, 101, 115, 111, 117, 114, 99, 101, 76, 105, 115, 116>>,
   body |-> Call("D", <<Call("Seq", <<Call("NT", <<StrLit(<<82, 101, 115, 111,
    117, 114, 99, 101>>)>>), Call("ZOM", <<Call("Seq", <<Call("T",
    <<StrLit(<<59>>)>>), Call("NT", <<StrLit(<<82, 101, 115, 111, 117, 114, 99,
    101>>)>>)>>)>>)>>)>>)],
  \* lines 1557-1559: rules.set("Resource", () =>
  \* D(Ch(0, NT("LocalVariableDeclaration"), NT("VariableAccess")))
  [name |-> <<82, 101, 115, 111, 117, 114, 99, 101>>,
   body |-> Call("D", <<Call("Ch", <<NumLit(0), Call("NT", <<StrLit(<<76, 111,
    99, 97, 108, 86, 97, 114, 105, 97, 98, 108, 101, 68, 101, 99, 108, 97, 114,
    97, 116, 105, 111, 110>>)>>), Call("NT", <<StrLit(<<86, 97, 114, 105, 97,
    98, 108, 101, 65, 99, 99, 101, 115, 115>>)>>)>>)>>)],
  \* lines 1561-1563: rules.set("VariableAccess", () =>
  \* D(Ch(0, NT("ExpressionName"), NT("FieldAccess")))
  [name |-> <<86, 97, 114, 105, 97, 98, 108, 101, 65, 99, 99, 101, 115, 115>>,
   body |-> Call("D", <<Call("Ch", <<NumLit(0), Call("NT", <<StrLit(<<69, 120,
    112, 114, 101, 115, 115, 105, 111, 110, 78, 97, 109, 101>>)>>), Call("NT",
    <<StrLit(<<70, 105, 101, 108, 100, 65, 99, 99, 101, 115, 115>>)>>)>>)>>)],
  \* lines 1565-1567: rules.set("Pattern", () =>
  \* D(Ch(0, NT("TypePattern"), NT("RecordPattern")))
  [name |-> <<80, 97, 116, 116, 101, 114, 110>>,
   body |-> Call("D", <<Call("Ch", <<NumLit(0), Call("NT", <<StrLit(<<84, 121,
    112, 101, 80, 97, 116, 116, 101, 114, 110>>)>>), Call("NT", <<StrLit(<<82,
    101, 99, 111, 114, 100, 80, 97, 116, 116, 101, 114, 110>>)>>)>>)>>)],
  \* lines 1569-1571: rules.set("TypePattern", () =>
  \* D(NT("LocalVariableDeclaration"))
  [name |-> <<84, 121, 112, 101, 80, 97, 116, 116, 101, 114, 110>>,
   body |-> Call("D", <<Call("NT", <<StrLit(<<76, 111, 99, 97, 108, 86, 97,
    114, 105, 97, 98, 108, 101, 68, 101, 99, 108, 97, 114, 97, 116, 105, 111,
    110>>)>>)>>)],
  \* lines 1573-1575: rules.set("RecordPattern", () =>
  \* D(Seq(NT("ReferenceType"), T("("), Opt(NT("ComponentPatternList")), T(")"
  \* )))
  [name |-> <<82, 101, 99, 111, 114, 100, 80, 97, 116, 116, 101, 114, 110>>,
   body |-> Call("D", <<Call("Seq", <<Call("NT", <<StrLit(<<82, 101, 102, 101,
    114, 101, 110, 99, 101, 84, 121, 112, 101>>)>>), Call("T",
    <<StrLit(<<40>>)>>), Call("Opt", <<Call("NT", <<StrLit(<<67, 111, 109, 112,
    111, 110, 101, 110, 116, 80, 97, 116, 116, 101, 114, 110, 76, 105, 115,
    116>>)>>)>>), Call("T", <<StrLit(<<41>>)>>)>>)>>)],
  \* lines 1577-1579: rules.set("ComponentPatternList", () =>
  \* D(Seq(NT("ComponentPattern"), ZOM(Seq(T(","), NT("ComponentPattern")))))
  [name |-> <<67, 111, 109, 112, 111, 110, 101, 110, 116, 80, 97, 116, 116,
    101, 114, 110, 76, 105, 115, 116>>,
   body |-> Call("D", <<Call("Seq", <<Call("NT", <<StrLit(<<67, 111, 109, 112,
    111, 110, 101, 110, 116, 80, 97, 116, 116, 101, 114, 110>>)>>), Call("ZOM",
    <<Call("Seq", <<Call("T", <<StrLit(<<44>>)>>), Call("NT", <<StrLit(<<67,
    111, 109, 112, 111, 110, 101, 110, 116, 80, 97, 116, 116, 101, 114,
    110>>)>>)>>)>>)>>)>>)],
  \* lines 1581-1583: rules.set("ComponentPattern", () =>
  \* D(Ch(0, NT("Pattern"), NT("MatchAllPattern")))
  [name |-> <<67, 111, 109, 112, 111, 110, 101, 110, 116, 80, 97, 116, 116,
    101, 114, 110>>,
   body |-> Call("D", <<Call("Ch", <<NumLit(0), Call("NT", <<StrLit(<<80, 97,
    116, 116, 101, 114, 110>>)>>), Call("NT", <<StrLit(<<77, 97, 116, 99, 104,
    65, 108, 108, 80, 97, 116, 116, 101, 114, 110>>)>>)>>)>>)],
  \* lines 1585-1587: rules.set("MatchAllPattern", () =>
  \* D(T("_"))
  [name |-> <<77, 97, 116, 99, 104, 65, 108, 108, 80, 97, 116, 116, 101, 114,
    110>>,
   body |-> Call("D", <<Call("T", <<StrLit(<<95>>)>>)>>)],
  \* lines 1593-1595: rules.set("Primary", () =>
  \* D(Ch(0, NT("PrimaryNoNewArray"), NT("ArrayCreationExpression")))
  [name |-> <<80, 114, 105, 109, 97, 114, 121>>,
   body |-> Call("D", <<Call("Ch", <<NumLit(0), Call("NT", <<StrLit(<<80, 114,
    105, 109, 97, 114, 121, 78, 111, 78, 101, 119, 65, 114, 114, 97, 121>>)>>),
    Call("NT", <<StrLit(<<65, 114, 114, 97, 121, 67, 114, 101, 97, 116, 105,
    111, 110, 69, 120, 112, 114, 101, 115, 115, 105, 111, 110>>)>>)>>)>>)],
  \* lines 1597-1612: rules.set("PrimaryNoNewArray", () =>
  \* D(Ch(0, NT("Literal"), NT("ClassLiteral"), T("this"), Seq(NT("TypeName"),
  \* T("."), T("this")), Seq(T("("), NT("Expression"), T(")")), NT(
  \* "ClassInstanceCreationExpression"), NT("FieldAccess"), NT("ArrayAccess"),
  \* NT("MethodInvocation"), NT("MethodReference")))
  [name |-> <<80, 114, 105, 109, 97, 114, 121, 78, 111, 78, 101, 119, 65, 114,
    114, 97, 121>>,
   body |-> Call("D", <<Call("Ch", <<NumLit(0), Call("NT", <<StrLit(<<76, 105,
    116, 101, 114, 97, 108>>)>>), Call("NT", <<StrLit(<<67, 108, 97, 115, 115,
    76, 105, 116, 101, 114, 97, 108>>)>>), Call("T", <<StrLit(<<116, 104, 105,
    115>>)>>), Call("Seq", <<Call("NT", <<StrLit(<<84, 121, 112, 101, 78, 97,
    109, 101>>)>>), Call("T", <<StrLit(<<46>>)>>), Call("T", <<StrLit(<<116,
    104, 105, 115>>)>>)>>), Call("Seq", <<Call("T", <<StrLit(<<40>>)>>),
    Call("NT", <<StrLit(<<69, 120, 112, 114, 101, 115, 115, 105, 111,
    110>>)>>), Call("T", <<StrLit(<<41>>)>>)>>), Call("NT", <<StrLit(<<67, 108,
    97, 115, 115, 73, 110, 115, 116, 97, 110, 99, 101, 67, 114, 101, 97, 116,
    105, 111, 110, 69, 120, 112, 114, 101, 115, 115, 105, 111, 110>>)>>),
    Call("NT", <<StrLit(<<70, 105, 101, 108, 100, 65, 99, 99, 101, 115,
    115>>)>>), Call("NT", <<StrLit(<<65, 114, 114, 97, 121, 65, 99, 99, 101,
    115, 115>>)>>), Call("NT", <<StrLit(<<77, 101, 116, 104, 111, 100, 73, 110,
    118, 111, 99, 97, 116, 105, 111, 110>>)>>), Call("NT", <<StrLit(<<77, 101,
    116, 104, 111, 100, 82, 101, 102, 101, 114, 101, 110, 99, 101>>)>>)>>)>>)],
  \* lines 1614-1623: rules.set("ClassLiteral", () =>
  \* D(Ch(0, Seq(NT("TypeName"), ZOM(Seq(T("["), T("]"))), T("."), T("class")
  \* ), Seq(NT("NumericType"), ZOM(Seq(T("["), T("]"))), T("."), T("class")),
  \* Seq(T("boolean"), ZOM(Seq(T("["), T("]"))), T("."), T("class")), Seq(T(
  \* "void"), T("."), T("class"))))
  [name |-> <<67, 108, 97, 115, 115, 76, 105, 116, 101, 114, 97, 108>>,
   body |-> Call("D", <<Call("Ch", <<NumLit(0), Call("Seq", <<Call("NT",
    <<StrLit(<<84, 121, 112, 101, 78, 97, 109, 101>>)>>), Call("ZOM",
    <<Call("Seq", <<Call("T", <<StrLit(<<91>>)>>), Call("T",
    <<StrLit(<<93>>)>>)>>)>>), Call("T", <<StrLit(<<46>>)>>), Call("T",
    <<StrLit(<<99, 108, 97, 115, 115>>)>>)>>), Call("Seq", <<Call("NT",
    <<StrLit(<<78, 117, 109, 101, 114, 105, 99, 84, 121, 112, 101>>)>>),
    Call("ZOM", <<Call("Seq", <<Call("T", <<StrLit(<<91>>)>>), Call("T",
    <<StrLit(<<93>>)>>)>>)>>), Call("T", <<StrLit(<<46>>)>>), Call("T",
    <<StrLit(<<99, 108, 97, 115, 115>>)>>)>>), Call("Seq", <<Call("T",
    <<StrLit(<<98, 111, 111, 108, 101, 97, 110>>)>>), Call("ZOM", <<Call("Seq",
    <<Call("T", <<StrLit(<<91>>)>>), Call("T", <<StrLit(<<93>>)>>)>>)>>),
    Call("T", <<StrLit(<<46>>)>>), Call("T", <<StrLit(<<99, 108, 97, 115,
    115>>)>>)>>), Call("Seq", <<Call("T", <<StrLit(<<118, 111, 105, 100>>)>>),
    Call("T", <<StrLit(<<46>>)>>), Call("T", <<StrLit(<<99, 108, 97, 115,
    115>>)>>)>>)>>)>>)],
  \* lines 1625-1633: rules.set("ClassInstanceCreationExpression", () =>
  \* D(Ch(0, NT("UnqualifiedClassInstanceCreationExpression"), Seq(NT(
  \* "ExpressionName"), T("."), NT(
  \* "UnqualifiedClassInstanceCreationExpression")), Seq(NT("Primary"), T("."
  \* ), NT("UnqualifiedClassInstanceCreationExpression"))))
  [name |-> <<67, 108, 97, 115, 115, 73, 110, 115, 116, 97, 110, 99, 101, 67,
    114, 101, 97, 116, 105, 111, 110, 69, 120, 112, 114, 101, 115, 115, 105,
    111, 110>>,
   body |-> Call("D", <<Call("Ch", <<NumLit(0), Call("NT", <<StrLit(<<85, 110,
    113, 117, 97, 108, 105, 102, 105, 101, 100, 67, 108, 97, 115, 115, 73, 110,
    115, 116, 97, 110, 99, 101, 67, 114, 101, 97, 116, 105, 111, 110, 69, 120,
    112, 114, 101, 115, 115, 105, 111, 110>>)>>), Call("Seq", <<Call("NT",
    <<StrLit(<<69, 120, 112, 114, 101, 115, 115, 105, 111, 110, 78, 97, 109,
    101>>)>>), Call("T", <<StrLit(<<46>>)>>), Call("NT", <<StrLit(<<85, 110,
    113, 117, 97, 108, 105, 102, 105, 101, 100, 67, 108, 97, 115, 115, 73, 110,
    115, 116, 97, 110, 99, 101, 67, 114, 101, 97, 116, 105, 111, 110, 69, 120,
    112, 114, 101, 115, 115, 105, 111, 110>>)>>)>>), Call("Seq", <<Call("NT",
    <<StrLit(<<80, 114, 105, 109, 97, 114, 121>>)>>), Call("T",
    <<StrLit(<<46>>)>>), Call("NT", <<StrLit(<<85, 110, 113, 117, 97, 108, 105,
    102, 105, 101, 100, 67, 108, 97, 115, 115, 73, 110, 115, 116, 97, 110, 99,
    101, 67, 114, 101, 97, 116, 105, 111, 110, 69, 120, 112, 114, 101, 115,
    115, 105, 111, 110>>)>>)>>)>>)>>)],
  \* lines 1635-1637: rules.set("UnqualifiedClassInstanceCreationExpression", () =>
  \* D(Seq(T("new"), Opt(NT("TypeArguments")), NT(
  \* "ClassOrInterfaceTypeToInstantiate"), T("("), Opt(NT("ArgumentList")), T(
  \* ")"), Opt(NT("ClassBody"))))
  [name |-> <<85, 110, 113, 117, 97, 108, 105, 102, 105, 101, 100, 67, 108, 97,
    115, 115, 73, 110, 115, 116, 97, 110, 99, 101, 67, 114, 101, 97, 116, 105,
    111, 110, 69, 120, 112, 114, 101, 115, 115, 105, 111, 110>>,
   body |-> Call("D", <<Call("Seq", <<Call("T", <<StrLit(<<110, 101, 119>>)>>),
    Call("Opt", <<Call("NT", <<StrLit(<<84, 121, 112, 101, 65, 114, 103, 117,
    109, 101, 110, 116, 115>>)>>)>>), Call("NT", <<StrLit(<<67, 108, 97, 115,
    115, 79, 114, 73, 110, 116, 101, 114, 102, 97, 99, 101, 84, 121, 112, 101,
    84, 111, 73, 110, 115, 116, 97, 110, 116, 105, 97, 116, 101>>)>>),
    Call("T", <<StrLit(<<40>>)>>), Call("Opt", <<Call("NT", <<StrLit(<<65, 114,
    103, 117, 109, 101, 110, 116, 76, 105, 115, 116>>)>>)>>), Call("T",
    <<StrLit(<<41>>)>>), Call("Opt", <<Call("NT", <<StrLit(<<67, 108, 97, 115,
    115, 66, 111, 100, 121>>)>>)>>)>>)>>)],
  \* lines 1639-1648: rules.set("ClassOrInterfaceTypeToInstantiate", () =>
  \* D(Seq(ZOM(NT("Annotation")), NT("Identifier"), ZOM(Seq(T("."), ZOM(NT(
  \* "Annotation")), NT("Identifier"))), Opt(NT("TypeArgumentsOrDiamond"))))
  [name |-> <<67, 108, 97, 115, 115, 79, 114, 73, 110, 116, 101, 114, 102, 97,
    99, 101, 84, 121, 112, 101, 84, 111, 73, 110, 115, 116, 97, 110, 116, 105,
    97, 116, 101>>,
   body |-> Call("D", <<Call("Seq", <<Call("ZOM", <<Call("NT", <<StrLit(<<65,
    110, 110, 111, 116, 97, 116, 105, 111, 110>>)>>)>>), Call("NT",
    <<StrLit(<<73, 100, 101, 110, 116, 105, 102, 105, 101, 114>>)>>),
    Call("ZOM", <<Call("Seq", <<Call("T", <<StrLit(<<46>>)>>), Call("ZOM",
    <<Call("NT", <<StrLit(<<65, 110, 110, 111, 116, 97, 116, 105, 111,
    110>>)>>)>>), Call("NT", <<StrLit(<<73, 100, 101, 110, 116, 105, 102, 105,
    101, 114>>)>>)>>)>>), Call("Opt", <<Call("NT", <<StrLit(<<84, 121, 112,
    101, 65, 114, 103, 117, 109, 101, 110, 116, 115, 79, 114, 68, 105, 97, 109,
    111, 110, 100>>)>>)>>)>>)>>)],
  \* lines 1650-1652: rules.set("TypeArgumentsOrDiamond", () =>
  \* D(Ch(0, NT("TypeArguments"), Seq(T("<"), T(">"))))
  [name |-> <<84, 121, 112, 101, 65, 114, 103, 117, 109, 101, 110, 116, 115,
    79, 114, 68, 105, 97, 109, 111, 110, 100>>,
   body |-> Call("D", <<Call("Ch", <<NumLit(0), Call("NT", <<StrLit(<<84, 121,
    112, 101, 65, 114, 103, 117, 109, 101, 110, 116, 115>>)>>), Call("Seq",
    <<Call("T", <<StrLit(<<60>>)>>), Call("T", <<StrLit(<<62>>)>>)>>)>>)>>)],
  \* lines 1654-1656: rules.set("ArrayCreationExpression", () =>
  \* D(Ch(0, NT("ArrayCreationExpressionWithoutInitializer"), NT(
  \* "ArrayCreationExpressionWithInitializer")))
  [name |-> <<65, 114, 114, 97, 121, 67, 114, 101, 97, 116, 105, 111, 110, 69,
    120, 112, 114, 101, 115, 115, 105, 111, 110>>,
   body |-> Call("D", <<Call("Ch", <<NumLit(0), Call("NT", <<StrLit(<<65, 114,
    114, 97, 121, 67, 114, 101, 97, 116, 105, 111, 110, 69, 120, 112, 114, 101,
    115, 115, 105, 111, 110, 87, 105, 116, 104, 111, 117, 116, 73, 110, 105,
    116, 105, 97, 108, 105, 122, 101, 114>>)>>), Call("NT", <<StrLit(<<65, 114,
    114, 97, 121, 67, 114, 101, 97, 116, 105, 111, 110, 69, 120, 112, 114, 101,
    115, 115, 105, 111, 110, 87, 105, 116, 104, 73, 110, 105, 116, 105, 97,
    108, 105, 122, 101, 114>>)>>)>>)>>)],
  \* lines 1658-1665: rules.set("ArrayCreationExpressionWithoutInitializer", () =>
  \* D(Ch(0, Seq(T("new"), NT("PrimitiveType"), NT("DimExprs"), Opt(NT("Dims")
  \* )), Seq(T("new"), NT("ClassOrInterfaceType"), NT("DimExprs"), Opt(NT(
  \* "Dims")))))
  [name |-> <<65, 114, 114, 97, 121, 67, 114, 101, 97, 116, 105, 111, 110, 69,
    120, 112, 114, 101, 115, 115, 105, 111, 110, 87, 105, 116, 104, 111, 117,
    116, 73, 110, 105, 116, 105, 97, 108, 105, 122, 101, 114>>,
   body |-> Call("D", <<Call("Ch", <<NumLit(0), Call("Seq", <<Call("T",
    <<StrLit(<<110, 101, 119>>)>>), Call("NT", <<StrLit(<<80, 114, 105, 109,
    105, 116, 105, 118, 101, 84, 121, 112, 101>>)>>), Call("NT", <<StrLit(<<68,
    105, 109, 69, 120, 112, 114, 115>>)>>), Call("Opt", <<Call("NT",
    <<StrLit(<<68, 105, 109, 115>>)>>)>>)>>), Call("Seq", <<Call("T",
    <<StrLit(<<110, 101, 119>>)>>), Call("NT", <<StrLit(<<67, 108, 97, 115,
    115, 79, 114, 73, 110, 116, 101, 114, 102, 97, 99, 101, 84, 121, 112,
    101>>)>>), Call("NT", <<StrLit(<<68, 105, 109, 69, 120, 112, 114,
    115>>)>>), Call("Opt", <<Call("NT", <<StrLit(<<68, 105, 109,
    115>>)>>)>>)>>)>>)>>)],
  \* lines 1667-1674: rules.set("ArrayCreationExpressionWithInitializer", () =>
  \* D(Ch(0, Seq(T("new"), NT("PrimitiveType"), NT("Dims"), NT(
  \* "ArrayInitializer")), Seq(T("new"), NT("ClassOrInterfaceType"), NT("Dims"
  \* ), NT("ArrayInitializer"))))
  [name |-> <<65, 114, 114, 97, 121, 67, 114, 101, 97, 116, 105, 111, 110, 69,
    120, 112, 114, 101, 115, 115, 105, 111, 110, 87, 105, 116, 104, 73, 110,
    105, 116, 105, 97, 108, 105, 122, 101, 114>>,
   body |-> Call("D", <<Call("Ch", <<NumLit(0), Call("Seq", <<Call("T",
    <<StrLit(<<110, 101, 119>>)>>), Call("NT", <<StrLit(<<80, 114, 105, 109,
    105, 116, 105, 118, 101, 84, 121, 112, 101>>)>>), Call("NT", <<StrLit(<<68,
    105, 109, 115>>)>>), Call("NT", <<StrLit(<<65, 114, 114, 97, 121, 73, 110,
    105, 116, 105, 97, 108, 105, 122, 101, 114>>)>>)>>), Call("Seq",
    <<Call("T", <<StrLit(<<110, 101, 119>>)>>), Call("NT", <<StrLit(<<67, 108,
    97, 115, 115, 79, 114, 73, 110, 116, 101, 114, 102, 97, 99, 101, 84, 121,
    112, 101>>)>>), Call("NT", <<StrLit(<<68, 105, 109, 115>>)>>), Call("NT",
    <<StrLit(<<65, 114, 114, 97, 121, 73, 110, 105, 116, 105, 97, 108, 105,
    122, 101, 114>>)>>)>>)>>)>>)],
  \* lines 1676-1678: rules.set("DimExprs", () =>
  \* D(OOM(NT("DimExpr")))
  [name |-> <<68, 105, 109, 69, 120, 112, 114, 115>>,
   body |-> Call("D", <<Call("OOM", <<Call("NT", <<StrLit(<<68, 105, 109, 69,
    120, 112, 114>>)>>)>>)>>)],
  \* lines 1680-1682: rules.set("DimExpr", () =>
  \* D(Seq(ZOM(NT("Annotation")), T("["), NT("Expression"), T("]")))
  [name |-> <<68, 105, 109, 69, 120, 112, 114>>,
   body |-> Call("D", <<Call("Seq", <<Call("ZOM", <<Call("NT", <<StrLit(<<65,
    110, 110, 111, 116, 97, 116, 105, 111, 110>>)>>)>>), Call("T",
    <<StrLit(<<91>>)>>), Call("NT", <<StrLit(<<69, 120, 112, 114, 101, 115,
    115, 105, 111, 110>>)>>), Call("T", <<StrLit(<<93>>)>>)>>)>>)],
  \* lines 1684-1692: rules.set("ArrayAccess", () =>
  \* D(Ch(0, Seq(NT("ExpressionName"), T("["), NT("Expression"), T("]")), Seq(
  \* NT("PrimaryNoNewArray"), T("["), NT("Expression"), T("]")), Seq(NT(
  \* "ArrayCreationExpressionWithInitializer"), T("["), NT("Expression"), T(
  \* "]"))))
  [name |-> <<65, 114, 114, 97, 121, 65, 99, 99, 101, 115, 115>>,
   body |-> Call("D", <<Call("Ch", <<NumLit(0), Call("Seq", <<Call("NT",
    <<StrLit(<<69, 120, 112, 114, 101, 115, 115, 105, 111, 110, 78, 97, 109,
    101>>)>>), Call("T", <<StrLit(<<91>>)>>), Call("NT", <<StrLit(<<69, 120,
    112, 114, 101, 115, 115, 105, 111, 110>>)>>), Call("T",
    <<StrLit(<<93>>)>>)>>), Call("Seq", <<Call("NT", <<StrLit(<<80, 114, 105,
    109, 97, 114, 121, 78, 111, 78, 101, 119, 65, 114, 114, 97, 121>>)>>),
    Call("T", <<StrLit(<<91>>)>>), Call("NT", <<StrLit(<<69, 120, 112, 114,
    101, 115, 115, 105, 111, 110>>)>>), Call("T", <<StrLit(<<93>>)>>)>>),
    Call("Seq", <<Call("NT", <<StrLit(<<65, 114, 114, 97, 121, 67, 114, 101,
    97, 116, 105, 111, 110, 69, 120, 112, 114, 101, 115, 115, 105, 111, 110,
    87, 105, 116, 104, 73, 110, 105, 116, 105, 97, 108, 105, 122, 101,
    114>>)>>), Call("T", <<StrLit(<<91>>)>>), Call("NT", <<StrLit(<<69, 120,
    112, 114, 101, 115, 115, 105, 111, 110>>)>>), Call("T",
    <<StrLit(<<93>>)>>)>>)>>)>>)],
  \* lines 1694-1702: rules.set("FieldAccess", () =>
  \* D(Ch(0, Seq(NT("Primary"), T("."), NT("Identifier")), Seq(T("super"), T(
  \* "."), NT("Identifier")), Seq(NT("TypeName"), T("."), T("super"), T("."),
  \* NT("Identifier"))))
  [name |-> <<70, 105, 101, 108, 100, 65, 99, 99, 101, 115, 115>>,
   body |-> Call("D", <<Call("Ch", <<NumLit(0), Call("Seq", <<Call("NT",
    <<StrLit(<<80, 114, 105, 109, 97, 114, 121>>)>>), Call("T",
    <<StrLit(<<46>>)>>), Call("NT", <<StrLit(<<73, 100, 101, 110, 116, 105,
    102, 105, 101, 114>>)>>)>>), Call("Seq", <<Call("T", <<StrLit(<<115, 117,
    112, 101, 114>>)>>), Call("T", <<StrLit(<<46>>)>>), Call("NT",
    <<StrLit(<<73, 100, 101, 110, 116, 105, 102, 105, 101, 114>>)>>)>>),
    Call("Seq", <<Call("NT", <<StrLit(<<84, 121, 112, 101, 78, 97, 109,
    101>>)>>), Call("T", <<StrLit(<<46>>)>>), Call("T", <<StrLit(<<115, 117,
    112, 101, 114>>)>>), Call("T", <<StrLit(<<46>>)>>), Call("NT",
    <<StrLit(<<73, 100, 101, 110, 116, 105, 102, 105, 101, 114>>)>>)>>)>>)>>)],
  \* lines 1704-1715: rules.set("MethodInvocation", () =>
  \* D(Ch(0, Seq(NT("MethodName"), T("("), Opt(NT("ArgumentList")), T(")")),
  \* Seq(NT("TypeName"), T("."), Opt(NT("TypeArguments")), NT("Identifier"),
  \* T("("), Opt(NT("ArgumentList")), T(")")), Seq(NT("ExpressionName"), T("."
  \* ), Opt(NT("TypeArguments")), NT("Identifier"), T("("), Opt(NT(
  \* "ArgumentList")), T(")")), Seq(NT("Primary"), T("."), Opt(NT(
  \* "TypeArguments")), NT("Identifier"), T("("), Opt(NT("ArgumentList")), T(
  \* ")")), Seq(T("super"), T("."), Opt(NT("TypeArguments")), NT("Identifier"
  \* ), T("("), Opt(NT("ArgumentList")), T(")")), Seq(NT("TypeName"), T("."),
  \* T("super"), T("."), Opt(NT("TypeArguments")), NT("Identifier"), T("("),
  \* Opt(NT("ArgumentList")), T(")"))))
  [name |-> <<77, 101, 116, 104, 111, 100, 73, 110, 118, 111, 99, 97, 116, 105,
    111, 110>>,
   body |-> Call("D", <<Call("Ch", <<NumLit(0), Call("Seq", <<Call("NT",
    <<StrLit(<<77, 101, 116, 104, 111, 100, 78, 97, 109, 101>>)>>), Call("T",
    <<StrLit(<<40>>)>>), Call("Opt", <<Call("NT", <<StrLit(<<65, 114, 103, 117,
    109, 101, 110, 116, 76, 105, 115, 116>>)>>)>>), Call("T",
    <<StrLit(<<41>>)>>)>>), Call("Seq", <<Call("NT", <<StrLit(<<84, 121, 112,
    101, 78, 97, 109, 101>>)>>), Call("T", <<StrLit(<<46>>)>>), Call("Opt",
    <<Call("NT", <<StrLit(<<84, 121, 112, 101, 65, 114, 103, 117, 109, 101,
    110, 116, 115>>)>>)>>), Call("NT", <<StrLit(<<73, 100, 101, 110, 116, 105,
    102, 105, 101, 114>>)>>), Call("T", <<StrLit(<<40>>)>>), Call("Opt",
    <<Call("NT", <<StrLit(<<65, 114, 103, 117, 109, 101, 110, 116, 76, 105,
    115, 116>>)>>)>>), Call("T", <<StrLit(<<41>>)>>)>>), Call("Seq",
    <<Call("NT", <<StrLit(<<69, 120, 112, 114, 101, 115, 115, 105, 111, 110,
    78, 97, 109, 101>>)>>), Call("T", <<StrLit(<<46>>)>>), Call("Opt",
    <<Call("NT", <<StrLit(<<84, 121, 112, 101, 65, 114, 103, 117, 109, 101,
    110, 116, 115>>)>>)>>), Call("NT", <<StrLit(<<73, 100, 101, 110, 116, 105,
    102, 105, 101, 114>>)>>), Call("T", <<StrLit(<<40>>)>>), Call("Opt",
    <<Call("NT", <<StrLit(<<65, 114, 103, 117, 109, 101, 110, 116, 76, 105,
    115, 116>>)>>)>>), Call("T", <<StrLit(<<41>>)>>)>>), Call("Seq",
    <<Call("NT", <<StrLit(<<80, 114, 105, 109, 97, 114, 121>>)>>), Call("T",
    <<StrLit(<<46>>)>>), Call("Opt", <<Call("NT", <<StrLit(<<84, 121, 112, 101,
    65, 114, 103, 117, 109, 101, 110, 116, 115>>)>>)>>), Call("NT",
    <<StrLit(<<73, 100, 101, 110, 116, 105, 102, 105, 101, 114>>)>>), Call("T",
    <<StrLit(<<40>>)>>), Call("Opt", <<Call("NT", <<StrLit(<<65, 114, 103, 117,
    109, 101, 110, 116, 76, 105, 115, 116>>)>>)>>), Call("T",
    <<StrLit(<<41>>)>>)>>), Call("Seq", <<Call("T", <<StrLit(<<115, 117, 112,
    101, 114>>)>>), Call("T", <<StrLit(<<46>>)>>), Call("Opt", <<Call("NT",
    <<StrLit(<<84, 121, 112, 101, 65, 114, 103, 117, 109, 101, 110, 116,
    115>>)>>)>>), Call("NT", <<StrLit(<<73, 100, 101, 110, 116, 105, 102, 105,
    101, 114>>)>>), Call("T", <<StrLit(<<40>>)>>), Call("Opt", <<Call("NT",
    <<StrLit(<<65, 114, 103, 117, 109, 101, 110, 116, 76, 105, 115,
    116>>)>>)>>), Call("T", <<StrLit(<<41>>)>>)>>), Call("Seq", <<Call("NT",
    <<StrLit(<<84, 121, 112, 101, 78, 97, 109, 101>>)>>), Call("T",
    <<StrLit(<<46>>)>>), Call("T", <<StrLit(<<115, 117, 112, 101, 114>>)>>),
    Call("T", <<StrLit(<<46>>)>>), Call("Opt", <<Call("NT", <<StrLit(<<84, 121,
    112, 101, 65, 114, 103, 117, 109, 101, 110, 116, 115>>)>>)>>), Call("NT",
    <<StrLit(<<73, 100, 101, 110, 116, 105, 102, 105, 101, 114>>)>>), Call("T",
    <<StrLit(<<40>>)>>), Call("Opt", <<Call("NT", <<StrLit(<<65, 114, 103, 117,
    109, 101, 110, 116, 76, 105, 115, 116>>)>>)>>), Call("T",
    <<StrLit(<<41>>)>>)>>)>>)>>)],
  \* lines 1717-1719: rules.set("ArgumentList", () =>
  \* D(Seq(NT("Expression"), ZOM(Seq(T(","), NT("Expression")))))
  [name |-> <<65, 114, 103, 117, 109, 101, 110, 116, 76, 105, 115, 116>>,
   body |-> Call("D", <<Call("Seq", <<Call("NT", <<StrLit(<<69, 120, 112, 114,
    101, 115, 115, 105, 111, 110>>)>>), Call("ZOM", <<Call("Seq", <<Call("T",
    <<StrLit(<<44>>)>>), Call("NT", <<StrLit(<<69, 120, 112, 114, 101, 115,
    115, 105, 111, 110>>)>>)>>)>>)>>)>>)],
  \* lines 1721-1733: rules.set("MethodReference", () =>
  \* D(Ch(0, Seq(NT("ExpressionName"), T("::"), Opt(NT("TypeArguments")), NT(
  \* "Identifier")), Seq(NT("Primary"), T("::"), Opt(NT("TypeArguments")), NT(
  \* "Identifier")), Seq(NT("ReferenceType"), T("::"), Opt(NT("TypeArguments")
  \* ), NT("Identifier")), Seq(T("super"), T("::"), Opt(NT("TypeArguments")),
  \* NT("Identifier")), Seq(NT("TypeName"), T("."), T("super"), T("::"), Opt(
  \* NT("TypeArguments")), NT("Identifier")), Seq(NT("ClassType"), T("::"),
  \* Opt(NT("TypeArguments")), T("new")), Seq(NT("ArrayType"), T("::"), T(
  \* "new"))))
  [name |-> <<77, 101, 116, 104, 111, 100, 82, 101, 102, 101, 114, 101, 110,
    99, 101>>,
   body |-> Call("D", <<Call("Ch", <<NumLit(0), Call("Seq", <<Call("NT",
    <<StrLit(<<69, 120, 112, 114, 101, 115, 115, 105, 111, 110, 78, 97, 109,
    101>>)>>), Call("T", <<StrLit(<<58, 58>>)>>), Call("Opt", <<Call("NT",
    <<StrLit(<<84, 121, 112, 101, 65, 114, 103, 117, 109, 101, 110, 116,
    115>>)>>)>>), Call("NT", <<StrLit(<<73, 100, 101, 110, 116, 105, 102, 105,
    101, 114>>)>>)>>), Call("Seq", <<Call("NT", <<StrLit(<<80, 114, 105, 109,
    97, 114, 121>>)>>), Call("T", <<StrLit(<<58, 58>>)>>), Call("Opt",
    <<Call("NT", <<StrLit(<<84, 121, 112, 101, 65, 114, 103, 117, 109, 101,
    110, 116, 115>>)>>)>>), Call("NT", <<StrLit(<<73, 100, 101, 110, 116, 105,
    102, 105, 101, 114>>)>>)>>), Call("Seq", <<Call("NT", <<StrLit(<<82, 101,
    102, 101, 114, 101, 110, 99, 101, 84, 121, 112, 101>>)>>), Call("T",
    <<StrLit(<<58, 58>>)>>), Call("Opt", <<Call("NT", <<StrLit(<<84, 121, 112,
    101, 65, 114, 103, 117, 109, 101, 110, 116, 115>>)>>)>>), Call("NT",
    <<StrLit(<<73, 100, 101, 110, 116, 105, 102, 105, 101, 114>>)>>)>>),
    Call("Seq", <<Call("T", <<StrLit(<<115, 117, 112, 101, 114>>)>>), Call("T",
    <<StrLit(<<58, 58>>)>>), Call("Opt", <<Call("NT", <<StrLit(<<84, 121, 112,
    101, 65, 114, 103, 117, 109, 101, 110, 116, 115>>)>>)>>), Call("NT",
    <<StrLit(<<73, 100, 101, 110, 116, 105, 102, 105, 101, 114>>)>>)>>),
    Call("Seq", <<Call("NT", <<StrLit(<<84, 121, 112, 101, 78, 97, 109,
    101>>)>>), Call("T", <<StrLit(<<46>>)>>), Call("T", <<StrLit(<<115, 117,
    112, 101, 114>>)>>), Call("T", <<StrLit(<<58, 58>>)>>), Call("Opt",
    <<Call("NT", <<StrLit(<<84, 121, 112, 101, 65, 114, 103, 117, 109, 101,
    110, 116, 115>>)>>)>>), Call("NT", <<StrLit(<<73, 100, 101, 110, 116, 105,
    102, 105, 101, 114>>)>>)>>), Call("Seq", <<Call("NT", <<StrLit(<<67, 108,
    97, 115, 115, 84, 121, 112, 101>>)>>), Call("T", <<StrLit(<<58, 58>>)>>),
    Call("Opt", <<Call("NT", <<StrLit(<<84, 121, 112, 101, 65, 114, 103, 117,
    109, 101, 110, 116, 115>>)>>)>>), Call("T", <<StrLit(<<110, 101,
    119>>)>>)>>), Call("Seq", <<Call("NT", <<StrLit(<<65, 114, 114, 97, 121,
    84, 121, 112, 101>>)>>), Call("T", <<StrLit(<<58, 58>>)>>), Call("T",
    <<StrLit(<<110, 101, 119>>)>>)>>)>>)>>)],
  \* lines 1735-1737: rules.set("Expression", () =>
  \* D(Ch(0, NT("LambdaExpression"), NT("AssignmentExpression")))
  [name |-> <<69, 120, 112, 114, 101, 115, 115, 105, 111, 110>>,
   body |-> Call("D", <<Call("Ch", <<NumLit(0), Call("NT", <<StrLit(<<76, 97,
    109, 98, 100, 97, 69, 120, 112, 114, 101, 115, 115, 105, 111, 110>>)>>),
    Call("NT", <<StrLit(<<65, 115, 115, 105, 103, 110, 109, 101, 110, 116, 69,
    120, 112, 114, 101, 115, 115, 105, 111, 110>>)>>)>>)>>)],
  \* lines 1739-1741: rules.set("LambdaExpression", () =>
  \* D(Seq(NT("LambdaParameters"), T("->"), NT("LambdaBody")))
  [name |-> <<76, 97, 109, 98, 100, 97, 69, 120, 112, 114, 101, 115, 115, 105,
    111, 110>>,
   body |-> Call("D", <<Call("Seq", <<Call("NT", <<StrLit(<<76, 97, 109, 98,
    100, 97, 80, 97, 114, 97, 109, 101, 116, 101, 114, 115>>)>>), Call("T",
    <<StrLit(<<45, 62>>)>>), Call("NT", <<StrLit(<<76, 97, 109, 98, 100, 97,
    66, 111, 100, 121>>)>>)>>)>>)],
  \* lines 1743-1745: rules.set("LambdaParameters", () =>
  \* D(Ch(0, Seq(T("("), Opt(NT("LambdaParameterList")), T(")")), NT(
  \* "ConciseLambdaParameter")))
  [name |-> <<76, 97, 109, 98, 100, 97, 80, 97, 114, 97, 109, 101, 116, 101,
    114, 115>>,
   body |-> Call("D", <<Call("Ch", <<NumLit(0), Call("Seq", <<Call("T",
    <<StrLit(<<40>>)>>), Call("Opt", <<Call("NT", <<StrLit(<<76, 97, 109, 98,
    100, 97, 80, 97, 114, 97, 109, 101, 116, 101, 114, 76, 105, 115,
    116>>)>>)>>), Call("T", <<StrLit(<<41>>)>>)>>), Call("NT", <<StrLit(<<67,
    111, 110, 99, 105, 115, 101, 76, 97, 109, 98, 100, 97, 80, 97, 114, 97,
    109, 101, 116, 101, 114>>)>>)>>)>>)],
  \* lines 1747-1754: rules.set("LambdaParameterList", () =>
  \* D(Ch(0, Seq(NT("NormalLambdaParameter"), ZOM(Seq(T(","), NT(
  \* "NormalLambdaParameter")))), Seq(NT("ConciseLambdaParameter"), ZOM(Seq(T(
  \* ","), NT("ConciseLambdaParameter"))))))
  [name |-> <<76, 97, 109, 98, 100, 97, 80, 97, 114, 97, 109, 101, 116, 101,
    114, 76, 105, 115, 116>>,
   body |-> Call("D", <<Call("Ch", <<NumLit(0), Call("Seq", <<Call("NT",
    <<StrLit(<<78, 111, 114, 109, 97, 108, 76, 97, 109, 98, 100, 97, 80, 97,
    114, 97, 109, 101, 116, 101, 114>>)>>), Call("ZOM", <<Call("Seq",
    <<Call("T", <<StrLit(<<44>>)>>), Call("NT", <<StrLit(<<78, 111, 114, 109,
    97, 108, 76, 97, 109, 98, 100, 97, 80, 97, 114, 97, 109, 101, 116, 101,
    114>>)>>)>>)>>)>>), Call("Seq", <<Call("NT", <<StrLit(<<67, 111, 110, 99,
    105, 115, 101, 76, 97, 109, 98, 100, 97, 80, 97, 114, 97, 109, 101, 116,
    101, 114>>)>>), Call("ZOM", <<Call("Seq", <<Call("T", <<StrLit(<<44>>)>>),
    Call("NT", <<StrLit(<<67, 111, 110, 99, 105, 115, 101, 76, 97, 109, 98,
    100, 97, 80, 97, 114, 97, 109, 101, 116, 101, 114>>)>>)>>)>>)>>)>>)>>)],
  \* lines 1756-1763: rules.set("NormalLambdaParameter", () =>
  \* D(Ch(0, Seq(ZOM(NT("VariableModifier")), NT("LambdaParameterType"), NT(
  \* "VariableDeclaratorId")), NT("VariableArityParameter")))
  [name |-> <<78, 111, 114, 109, 97, 108, 76, 97, 109, 98, 100, 97, 80, 97,
    114, 97, 109, 101, 116, 101, 114>>,
   body |-> Call("D", <<Call("Ch", <<NumLit(0), Call("Seq", <<Call("ZOM",
    <<Call("NT", <<StrLit(<<86, 97, 114, 105, 97, 98, 108, 101, 77, 111, 100,
    105, 102, 105, 101, 114>>)>>)>>), Call("NT", <<StrLit(<<76, 97, 109, 98,
    100, 97, 80, 97, 114, 97, 109, 101, 116, 101, 114, 84, 121, 112, 101>>)>>),
    Call("NT", <<StrLit(<<86, 97, 114, 105, 97, 98, 108, 101, 68, 101, 99, 108,
    97, 114, 97, 116, 111, 114, 73, 100>>)>>)>>), Call("NT", <<StrLit(<<86, 97,
    114, 105, 97, 98, 108, 101, 65, 114, 105, 116, 121, 80, 97, 114, 97, 109,
    101, 116, 101, 114>>)>>)>>)>>)],
  \* lines 1765-1767: rules.set("LambdaParameterType", () =>
  \* D(Ch(0, NT("UnannType"), T("var")))
  [name |-> <<76, 97, 109, 98, 100, 97, 80, 97, 114, 97, 109, 101, 116, 101,
    114, 84, 121, 112, 101>>,
   body |-> Call("D", <<Call("Ch", <<NumLit(0), Call("NT", <<StrLit(<<85, 110,
    97, 110, 110, 84, 121, 112, 101>>)>>), Call("T", <<StrLit(<<118, 97,
    114>>)>>)>>)>>)],
  \* lines 1769-1771: rules.set("ConciseLambdaParameter", () =>
  \* D(Ch(0, NT("Identifier"), T("_")))
  [name |-> <<67, 111, 110, 99, 105, 115, 101, 76, 97, 109, 98, 100, 97, 80,
    97, 114, 97, 109, 101, 116, 101, 114>>,
   body |-> Call("D", <<Call("Ch", <<NumLit(0), Call("NT", <<StrLit(<<73, 100,
    101, 110, 116, 105, 102, 105, 101, 114>>)>>), Call("T",
    <<StrLit(<<95>>)>>)>>)>>)],
  \* lines 1773-1775: rules.set("LambdaBody", () =>
  \* D(Ch(0, NT("Expression"), NT("Block")))
  [name |-> <<76, 97, 109, 98, 100, 97, 66, 111, 100, 121>>,
   body |-> Call("D", <<Call("Ch", <<NumLit(0), Call("NT", <<StrLit(<<69, 120,
    112, 114, 101, 115, 115, 105, 111, 110>>)>>), Call("NT", <<StrLit(<<66,
    108, 111, 99, 107>>)>>)>>)>>)],
  \* lines 1777-1779: rules.set("AssignmentExpression", () =>
  \* D(Ch(0, NT("ConditionalExpression"), NT("Assignment")))
  [name |-> <<65, 115, 115, 105, 103, 110, 109, 101, 110, 116, 69, 120, 112,
    114, 101, 115, 115, 105, 111, 110>>,
   body |-> Call("D", <<Call("Ch", <<NumLit(0), Call("NT", <<StrLit(<<67, 111,
    110, 100, 105, 116, 105, 111, 110, 97, 108, 69, 120, 112, 114, 101, 115,
    115, 105, 111, 110>>)>>), Call("NT", <<StrLit(<<65, 115, 115, 105, 103,
    110, 109, 101, 110, 116>>)>>)>>)>>)],
  \* lines 1781-1783: rules.set("Assignment", () =>
  \* D(Seq(NT("LeftHandSide"), NT("AssignmentOperator"), NT("Expression")))
  [name |-> <<65, 115, 115, 105, 103, 110, 109, 101, 110, 116>>,
   body |-> Call("D", <<Call("Seq", <<Call("NT", <<StrLit(<<76, 101, 102, 116,
    72, 97, 110, 100, 83, 105, 100, 101>>)>>), Call("NT", <<StrLit(<<65, 115,
    115, 105, 103, 110, 109, 101, 110, 116, 79, 112, 101, 114, 97, 116, 111,
    114>>)>>), Call("NT", <<StrLit(<<69, 120, 112, 114, 101, 115, 115, 105,
    111, 110>>)>>)>>)>>)],
  \* lines 1785-1787: rules.set("LeftHandSide", () =>
  \* D(Ch(0, NT("ExpressionName"), NT("FieldAccess"), NT("ArrayAccess")))
  [name |-> <<76, 101, 102, 116, 72, 97, 110, 100, 83, 105, 100, 101>>,
   body |-> Call("D", <<Call("Ch", <<NumLit(0), Call("NT", <<StrLit(<<69, 120,
    112, 114, 101, 115, 115, 105, 111, 110, 78, 97, 109, 101>>)>>), Call("NT",
    <<StrLit(<<70, 105, 101, 108, 100, 65, 99, 99, 101, 115, 115>>)>>),
    Call("NT", <<StrLit(<<65, 114, 114, 97, 121, 65, 99, 99, 101, 115,
    115>>)>>)>>)>>)],
  \* lines 1789-1791: rules.set("AssignmentOperator", () =>
  \* D(Ch(0, T("="), T("*="), T("/="), T("%="), T("+="), T("-="), T("<<="), T(
  \* ">>="), T(">>>="), T("&="), T("^="), T("|=")))
  [name |-> <<65, 115, 115, 105, 103, 110, 109, 101, 110, 116, 79, 112, 101,
    114, 97, 116, 111, 114>>,
   body |-> Call("D", <<Call("Ch", <<NumLit(0), Call("T", <<StrLit(<<61>>)>>),
    Call("T", <<StrLit(<<42, 61>>)>>), Call("T", <<StrLit(<<47, 61>>)>>),
    Call("T", <<StrLit(<<37, 61>>)>>), Call("T", <<StrLit(<<43, 61>>)>>),
    Call("T", <<StrLit(<<45, 61>>)>>), Call("T", <<StrLit(<<60, 60, 61>>)>>),
    Call("T", <<StrLit(<<62, 62, 61>>)>>), Call("T", <<StrLit(<<62, 62, 62,
    61>>)>>), Call("T", <<StrLit(<<38, 61>>)>>), Call("T", <<StrLit(<<94,
    61>>)>>), Call("T", <<StrLit(<<124, 61>>)>>)>>)>>)],
  \* lines 1793-1801: rules.set("ConditionalExpression", () =>
  \* D(Ch(0, NT("ConditionalOrExpression"), Seq(NT("ConditionalOrExpression"),
  \* T("?"), NT("Expression"), T(":"), NT("ConditionalExpression")), Seq(NT(
  \* "ConditionalOrExpression"), T("?"), NT("Expression"), T(":"), NT(
  \* "LambdaExpression"))))
  [name |-> <<67, 111, 110, 100, 105, 116, 105, 111, 110, 97, 108, 69, 120,
    112, 114, 101, 115, 115, 105, 111, 110>>,
   body |-> Call("D", <<Call("Ch", <<NumLit(0), Call("NT", <<StrLit(<<67, 111,
    110, 100, 105, 116, 105, 111, 110, 97, 108, 79, 114, 69, 120, 112, 114,
    101, 115, 115, 105, 111, 110>>)>>), Call("Seq", <<Call("NT", <<StrLit(<<67,
    111, 110, 100, 105, 116, 105, 111, 110, 97, 108, 79, 114, 69, 120, 112,
    114, 101, 115, 115, 105, 111, 110>>)>>), Call("T", <<StrLit(<<63>>)>>),
    Call("NT", <<StrLit(<<69, 120, 112, 114, 101, 115, 115, 105, 111,
    110>>)>>), Call("T", <<StrLit(<<58>>)>>), Call("NT", <<StrLit(<<67, 111,
    110, 100, 105, 116, 105, 111, 110, 97, 108, 69, 120, 112, 114, 101, 115,
    115, 105, 111, 110>>)>>)>>), Call("Seq", <<Call("NT", <<StrLit(<<67, 111,
    110, 100, 105, 116, 105, 111, 110, 97, 108, 79, 114, 69, 120, 112, 114,
    101, 115, 115, 105, 111, 110>>)>>), Call("T", <<StrLit(<<63>>)>>),
    Call("NT", <<StrLit(<<69, 120, 112, 114, 101, 115, 115, 105, 111,
    110>>)>>), Call("T", <<StrLit(<<58>>)>>), Call("NT", <<StrLit(<<76, 97,
    109, 98, 100, 97, 69, 120, 112, 114, 101, 115, 115, 105, 111,
    110>>)>>)>>)>>)>>)],
  \* lines 1803-1805: rules.set("ConditionalOrExpression", () =>
  \* D(Seq(NT("ConditionalAndExpression"), ZOM(Seq(T("||"), NT(
  \* "ConditionalAndExpression")))))
  [name |-> <<67, 111, 110, 100, 105, 116, 105, 111, 110, 97, 108, 79, 114, 69,
    120, 112, 114, 101, 115, 115, 105, 111, 110>>,
   body |-> Call("D", <<Call("Seq", <<Call("NT", <<StrLit(<<67, 111, 110, 100,
    105, 116, 105, 111, 110, 97, 108, 65, 110, 100, 69, 120, 112, 114, 101,
    115, 115, 105, 111, 110>>)>>), Call("ZOM", <<Call("Seq", <<Call("T",
    <<StrLit(<<124, 124>>)>>), Call("NT", <<StrLit(<<67, 111, 110, 100, 105,
    116, 105, 111, 110, 97, 108, 65, 110, 100, 69, 120, 112, 114, 101, 115,
    115, 105, 111, 110>>)>>)>>)>>)>>)>>)],
  \* lines 1807-1809: rules.set("ConditionalAndExpression", () =>
  \* D(Seq(NT("InclusiveOrExpression"), ZOM(Seq(T("&&"), NT(
  \* "InclusiveOrExpression")))))
  [name |-> <<67, 111, 110, 100, 105, 116, 105, 111, 110, 97, 108, 65, 110,
    100, 69, 120, 112, 114, 101, 115, 115, 105, 111, 110>>,
   body |-> Call("D", <<Call("Seq", <<Call("NT", <<StrLit(<<73, 110, 99, 108,
    117, 115, 105, 118, 101, 79, 114, 69, 120, 112, 114, 101, 115, 115, 105,
    111, 110>>)>>), Call("ZOM", <<Call("Seq", <<Call("T", <<StrLit(<<38,
    38>>)>>), Call("NT", <<StrLit(<<73, 110, 99, 108, 117, 115, 105, 118, 101,
    79, 114, 69, 120, 112, 114, 101, 115, 115, 105, 111,
    110>>)>>)>>)>>)>>)>>)],
  \* lines 1811-1813: rules.set("InclusiveOrExpression", () =>
  \* D(Seq(NT("ExclusiveOrExpression"), ZOM(Seq(T("|"), NT(
  \* "ExclusiveOrExpression")))))
  [name |-> <<73, 110, 99, 108, 117, 115, 105, 118, 101, 79, 114, 69, 120, 112,
    114, 101, 115, 115, 105, 111, 110>>,
   body |-> Call("D", <<Call("Seq", <<Call("NT", <<StrLit(<<69, 120, 99, 108,
    117, 115, 105, 118, 101, 79, 114, 69, 120, 112, 114, 101, 115, 115, 105,
    111, 110>>)>>), Call("ZOM", <<Call("Seq", <<Call("T", <<StrLit(<<124>>)>>),
    Call("NT", <<StrLit(<<69, 120, 99, 108, 117, 115, 105, 118, 101, 79, 114,
    69, 120, 112, 114, 101, 115, 115, 105, 111, 110>>)>>)>>)>>)>>)>>)],
  \* lines 1815-1817: rules.set("ExclusiveOrExpression", () =>
  \* D(Seq(NT("AndExpression"), ZOM(Seq(T("^"), NT("AndExpression")))))
  [name |-> <<69, 120, 99, 108, 117, 115, 105, 118, 101, 79, 114, 69, 120, 112,
    114, 101, 115, 115, 105, 111, 110>>,
   body |-> Call("D", <<Call("Seq", <<Call("NT", <<StrLit(<<65, 110, 100, 69,
    120, 112, 114, 101, 115, 115, 105, 111, 110>>)>>), Call("ZOM",
    <<Call("Seq", <<Call("T", <<StrLit(<<94>>)>>), Call("NT", <<StrLit(<<65,
    110, 100, 69, 120, 112, 114, 101, 115, 115, 105, 111,
    110>>)>>)>>)>>)>>)>>)],
  \* lines 1819-1821: rules.set("AndExpression", () =>
  \* D(Seq(NT("EqualityExpression"), ZOM(Seq(T("&"), NT("EqualityExpression"))
  \* )))
  [name |-> <<65, 110, 100, 69, 120, 112, 114, 101, 115, 115, 105, 111, 110>>,
   body |-> Call("D", <<Call("Seq", <<Call("NT", <<StrLit(<<69, 113, 117, 97,
    108, 105, 116, 121, 69, 120, 112, 114, 101, 115, 115, 105, 111, 110>>)>>),
    Call("ZOM", <<Call("Seq", <<Call("T", <<StrLit(<<38>>)>>), Call("NT",
    <<StrLit(<<69, 113, 117, 97, 108, 105, 116, 121, 69, 120, 112, 114, 101,
    115, 115, 105, 111, 110>>)>>)>>)>>)>>)>>)],
  \* lines 1823-1825: rules.set("EqualityExpression", () =>
  \* D(Seq(NT("RelationalExpression"), ZOM(Ch(0, Seq(T("=="), NT(
  \* "RelationalExpression")), Seq(T("!="), NT("RelationalExpression"))))))
  [name |-> <<69, 113, 117, 97, 108, 105, 116, 121, 69, 120, 112, 114, 101,
    115, 115, 105, 111, 110>>,
   body |-> Call("D", <<Call("Seq", <<Call("NT", <<StrLit(<<82, 101, 108, 97,
    116, 105, 111, 110, 97, 108, 69, 120, 112, 114, 101, 115, 115, 105, 111,
    110>>)>>), Call("ZOM", <<Call("Ch", <<NumLit(0), Call("Seq", <<Call("T",
    <<StrLit(<<61, 61>>)>>), Call("NT", <<StrLit(<<82, 101, 108, 97, 116, 105,
    111, 110, 97, 108, 69, 120, 112, 114, 101, 115, 115, 105, 111,
    110>>)>>)>>), Call("Seq", <<Call("T", <<StrLit(<<33, 61>>)>>), Call("NT",
    <<StrLit(<<82, 101, 108, 97, 116, 105, 111, 110, 97, 108, 69, 120, 112,
    114, 101, 115, 115, 105, 111, 110>>)>>)>>)>>)>>)>>)>>)],
  \* lines 1827-1838: rules.set("RelationalExpression", () =>
  \* D(Ch(0, NT("ShiftExpression"), Seq(NT("RelationalExpression"), T("<"),
  \* NT("ShiftExpression")), Seq(NT("RelationalExpression"), T(">"), NT(
  \* "ShiftExpression")), Seq(NT("RelationalExpression"), T("<="), NT(
  \* "ShiftExpression")), Seq(NT("RelationalExpression"), T(">="), NT(
  \* "ShiftExpression")), NT("InstanceofExpression")))
  [name |-> <<82, 101, 108, 97, 116, 105, 111, 110, 97, 108, 69, 120, 112, 114,
    101, 115, 115, 105, 111, 110>>,
   body |-> Call("D", <<Call("Ch", <<NumLit(0), Call("NT", <<StrLit(<<83, 104,
    105, 102, 116, 69, 120, 112, 114, 101, 115, 115, 105, 111, 110>>)>>),
    Call("Seq", <<Call("NT", <<StrLit(<<82, 101, 108, 97, 116, 105, 111, 110,
    97, 108, 69, 120, 112, 114, 101, 115, 115, 105, 111, 110>>)>>), Call("T",
    <<StrLit(<<60>>)>>), Call("NT", <<StrLit(<<83, 104, 105, 102, 116, 69, 120,
    112, 114, 101, 115, 115, 105, 111, 110>>)>>)>>), Call("Seq", <<Call("NT",
    <<StrLit(<<82, 101, 108, 97, 116, 105, 111, 110, 97, 108, 69, 120, 112,
    114, 101, 115, 115, 105, 111, 110>>)>>), Call("T", <<StrLit(<<62>>)>>),
    Call("NT", <<StrLit(<<83, 104, 105, 102, 116, 69, 120, 112, 114, 101, 115,
    115, 105, 111, 110>>)>>)>>), Call("Seq", <<Call("NT", <<StrLit(<<82, 101,
    108, 97, 116, 105, 111, 110, 97, 108, 69, 120, 112, 114, 101, 115, 115,
    105, 111, 110>>)>>), Call("T", <<StrLit(<<60, 61>>)>>), Call("NT",
    <<StrLit(<<83, 104, 105, 102, 116, 69, 120, 112, 114, 101, 115, 115, 105,
    111, 110>>)>>)>>), Call("Seq", <<Call("NT", <<StrLit(<<82, 101, 108, 97,
    116, 105, 111, 110, 97, 108, 69, 120, 112, 114, 101, 115, 115, 105, 111,
    110>>)>>), Call("T", <<StrLit(<<62, 61>>)>>), Call("NT", <<StrLit(<<83,
    104, 105, 102, 116, 69, 120, 112, 114, 101, 115, 115, 105, 111,
    110>>)>>)>>), Call("NT", <<StrLit(<<73, 110, 115, 116, 97, 110, 99, 101,
    111, 102, 69, 120, 112, 114, 101, 115, 115, 105, 111, 110>>)>>)>>)>>)],
  \* lines 1840-1847: rules.set("InstanceofExpression", () =>
  \* D(Ch(0, Seq(NT("RelationalExpression"), T("instanceof"), NT(
  \* "ReferenceType")), Seq(NT("RelationalExpression"), T("instanceof"), NT(
  \* "Pattern"))))
  [name |-> <<73, 110, 115, 116, 97, 110, 99, 101, 111, 102, 69, 120, 112, 114,
    101, 115, 115, 105, 111, 110>>,
   body |-> Call("D", <<Call("Ch", <<NumLit(0), Call("Seq", <<Call("NT",
    <<StrLit(<<82, 101, 108, 97, 116, 105, 111, 110, 97, 108, 69, 120, 112,
    114, 101, 115, 115, 105, 111, 110>>)>>), Call("T", <<StrLit(<<105, 110,
    115, 116, 97, 110, 99, 101, 111, 102>>)>>), Call("NT", <<StrLit(<<82, 101,
    102, 101, 114, 101, 110, 99, 101, 84, 121, 112, 101>>)>>)>>), Call("Seq",
    <<Call("NT", <<StrLit(<<82, 101, 108, 97, 116, 105, 111, 110, 97, 108, 69,
    120, 112, 114, 101, 115, 115, 105, 111, 110>>)>>), Call("T",
    <<StrLit(<<105, 110, 115, 116, 97, 110, 99, 101, 111, 102>>)>>), Call("NT",
    <<StrLit(<<80, 97, 116, 116, 101, 114, 110>>)>>)>>)>>)>>)],
  \* lines 1849-1851: rules.set("ShiftExpression", () =>
  \* D(Seq(NT("AdditiveExpression"), ZOM(Ch(0, Seq(T("<<"), NT(
  \* "AdditiveExpression")), Seq(T(">>"), NT("AdditiveExpression")), Seq(T(
  \* ">>>"), NT("AdditiveExpression"))))))
  [name |-> <<83, 104, 105, 102, 116, 69, 120, 112, 114, 101, 115, 115, 105,
    111, 110>>,
   body |-> Call("D", <<Call("Seq", <<Call("NT", <<StrLit(<<65, 100, 100, 105,
    116, 105, 118, 101, 69, 120, 112, 114, 101, 115, 115, 105, 111, 110>>)>>),
    Call("ZOM", <<Call("Ch", <<NumLit(0), Call("Seq", <<Call("T",
    <<StrLit(<<60, 60>>)>>), Call("NT", <<StrLit(<<65, 100, 100, 105, 116, 105,
    118, 101, 69, 120, 112, 114, 101, 115, 115, 105, 111, 110>>)>>)>>),
    Call("Seq", <<Call("T", <<StrLit(<<62, 62>>)>>), Call("NT", <<StrLit(<<65,
    100, 100, 105, 116, 105, 118, 101, 69, 120, 112, 114, 101, 115, 115, 105,
    111, 110>>)>>)>>), Call("Seq", <<Call("T", <<StrLit(<<62, 62, 62>>)>>),
    Call("NT", <<StrLit(<<65, 100, 100, 105, 116, 105, 118, 101, 69, 120, 112,
    114, 101, 115, 115, 105, 111, 110>>)>>)>>)>>)>>)>>)>>)],
  \* lines 1853-1855: rules.set("AdditiveExpression", () =>
  \* D(Seq(NT("MultiplicativeExpression"), ZOM(Ch(0, Seq(T("+"), NT(
  \* "MultiplicativeExpression")), Seq(T("-"), NT("MultiplicativeExpression"))
  \* ))))
  [name |-> <<65, 100, 100, 105, 116, 105, 118, 101, 69, 120, 112, 114, 101,
    115, 115, 105, 111, 110>>,
   body |-> Call("D", <<Call("Seq", <<Call("NT", <<StrLit(<<77, 117, 108, 116,
    105, 112, 108, 105, 99, 97, 116, 105, 118, 101, 69, 120, 112, 114, 101,
    115, 115, 105, 111, 110>>)>>), Call("ZOM", <<Call("Ch", <<NumLit(0),
    Call("Seq", <<Call("T", <<StrLit(<<43>>)>>), Call("NT", <<StrLit(<<77, 117,
    108, 116, 105, 112, 108, 105, 99, 97, 116, 105, 118, 101, 69, 120, 112,
    114, 101, 115, 115, 105, 111, 110>>)>>)>>), Call("Seq", <<Call("T",
    <<StrLit(<<45>>)>>), Call("NT", <<StrLit(<<77, 117, 108, 116, 105, 112,
    108, 105, 99, 97, 116, 105, 118, 101, 69, 120, 112, 114, 101, 115, 115,
    105, 111, 110>>)>>)>>)>>)>>)>>)>>)],
  \* lines 1857-1859: rules.set("MultiplicativeExpression", () =>
  \* D(Seq(NT("UnaryExpression"), ZOM(Ch(0, Seq(T("*"), NT("UnaryExpression")
  \* ), Seq(T("/"), NT("UnaryExpression")), Seq(T("%"), NT("UnaryExpression"))
  \* ))))
  [name |-> <<77, 117, 108, 116, 105, 112, 108, 105, 99, 97, 116, 105, 118,
    101, 69, 120, 112, 114, 101, 115, 115, 105, 111, 110>>,
   body |-> Call("D", <<Call("Seq", <<Call("NT", <<StrLit(<<85, 110, 97, 114,
    121, 69, 120, 112, 114, 101, 115, 115, 105, 111, 110>>)>>), Call("ZOM",
    <<Call("Ch", <<NumLit(0), Call("Seq", <<Call("T", <<StrLit(<<42>>)>>),
    Call("NT", <<StrLit(<<85, 110, 97, 114, 121, 69, 120, 112, 114, 101, 115,
    115, 105, 111, 110>>)>>)>>), Call("Seq", <<Call("T", <<StrLit(<<47>>)>>),
    Call("NT", <<StrLit(<<85, 110, 97, 114, 121, 69, 120, 112, 114, 101, 115,
    115, 105, 111, 110>>)>>)>>), Call("Seq", <<Call("T", <<StrLit(<<37>>)>>),
    Call("NT", <<StrLit(<<85, 110, 97, 114, 121, 69, 120, 112, 114, 101, 115,
    115, 105, 111, 110>>)>>)>>)>>)>>)>>)>>)],
  \* lines 1861-1871: rules.set("UnaryExpression", () =>
  \* D(Ch(0, NT("PreIncrementExpression"), NT("PreDecrementExpression"), Seq(
  \* T("+"), NT("UnaryExpression")), Seq(T("-"), NT("UnaryExpression")), NT(
  \* "UnaryExpressionNotPlusMinus")))
  [name |-> <<85, 110, 97, 114, 121, 69, 120, 112, 114, 101, 115, 115, 105,
    111, 110>>,
   body |-> Call("D", <<Call("Ch", <<NumLit(0), Call("NT", <<StrLit(<<80, 114,
    101, 73, 110, 99, 114, 101, 109, 101, 110, 116, 69, 120, 112, 114, 101,
    115, 115, 105, 111, 110>>)>>), Call("NT", <<StrLit(<<80, 114, 101, 68, 101,
    99, 114, 101, 109, 101, 110, 116, 69, 120, 112, 114, 101, 115, 115, 105,
    111, 110>>)>>), Call("Seq", <<Call("T", <<StrLit(<<43>>)>>), Call("NT",
    <<StrLit(<<85, 110, 97, 114, 121, 69, 120, 112, 114, 101, 115, 115, 105,
    111, 110>>)>>)>>), Call("Seq", <<Call("T", <<StrLit(<<45>>)>>), Call("NT",
    <<StrLit(<<85, 110, 97, 114, 121, 69, 120, 112, 114, 101, 115, 115, 105,
    111, 110>>)>>)>>), Call("NT", <<StrLit(<<85, 110, 97, 114, 121, 69, 120,
    112, 114, 101, 115, 115, 105, 111, 110, 78, 111, 116, 80, 108, 117, 115,
    77, 105, 110, 117, 115>>)>>)>>)>>)],
  \* lines 1873-1875: rules.set("PreIncrementExpression", () =>
  \* D(Seq(T("++"), NT("UnaryExpression")))
  [name |-> <<80, 114, 101, 73, 110, 99, 114, 101, 109, 101, 110, 116, 69, 120,
    112, 114, 101, 115, 115, 105, 111, 110>>,
   body |-> Call("D", <<Call("Seq", <<Call("T", <<StrLit(<<43, 43>>)>>),
    Call("NT", <<StrLit(<<85, 110, 97, 114, 121, 69, 120, 112, 114, 101, 115,
    115, 105, 111, 110>>)>>)>>)>>)],
  \* lines 1877-1879: rules.set("PreDecrementExpression", () =>
  \* D(Seq(T("--"), NT("UnaryExpression")))
  [name |-> <<80, 114, 101, 68, 101, 99, 114, 101, 109, 101, 110, 116, 69, 120,
    112, 114, 101, 115, 115, 105, 111, 110>>,
   body |-> Call("D", <<Call("Seq", <<Call("T", <<StrLit(<<45, 45>>)>>),
    Call("NT", <<StrLit(<<85, 110, 97, 114, 121, 69, 120, 112, 114, 101, 115,
    115, 105, 111, 110>>)>>)>>)>>)],
  \* lines 1881-1891: rules.set("UnaryExpressionNotPlusMinus", () =>
  \* D(Ch(0, NT("PostfixExpression"), Seq(T("~"), NT("UnaryExpression")), Seq(
  \* T("!"), NT("UnaryExpression")), NT("CastExpression"), NT(
  \* "SwitchExpression")))
  [name |-> <<85, 110, 97, 114, 121, 69, 120, 112, 114, 101, 115, 115, 105,
    111, 110, 78, 111, 116, 80, 108, 117, 115, 77, 105, 110, 117, 115>>,
   body |-> Call("D", <<Call("Ch", <<NumLit(0), Call("NT", <<StrLit(<<80, 111,
    115, 116, 102, 105, 120, 69, 120, 112, 114, 101, 115, 115, 105, 111,
    110>>)>>), Call("Seq", <<Call("T", <<StrLit(<<126>>)>>), Call("NT",
    <<StrLit(<<85, 110, 97, 114, 121, 69, 120, 112, 114, 101, 115, 115, 105,
    111, 110>>)>>)>>), Call("Seq", <<Call("T", <<StrLit(<<33>>)>>), Call("NT",
    <<StrLit(<<85, 110, 97, 114, 121, 69, 120, 112, 114, 101, 115, 115, 105,
    111, 110>>)>>)>>), Call("NT", <<StrLit(<<67, 97, 115, 116, 69, 120, 112,
    114, 101, 115, 115, 105, 111, 110>>)>>), Call("NT", <<StrLit(<<83, 119,
    105, 116, 99, 104, 69, 120, 112, 114, 101, 115, 115, 105, 111,
    110>>)>>)>>)>>)],
  \* lines 1893-1895: rules.set("PostfixExpression", () =>
  \* D(Ch(0, NT("Primary"), NT("ExpressionName"), NT("PostIncrementExpression"
  \* ), NT("PostDecrementExpression")))
  [name |-> <<80, 111, 115, 116, 102, 105, 120, 69, 120, 112, 114, 101, 115,
    115, 105, 111, 110>>,
   body |-> Call("D", <<Call("Ch", <<NumLit(0), Call("NT", <<StrLit(<<80, 114,
    105, 109, 97, 114, 121>>)>>), Call("NT", <<StrLit(<<69, 120, 112, 114, 101,
    115, 115, 105, 111, 110, 78, 97, 109, 101>>)>>), Call("NT", <<StrLit(<<80,
    111, 115, 116, 73, 110, 99, 114, 101, 109, 101, 110, 116, 69, 120, 112,
    114, 101, 115, 115, 105, 111, 110>>)>>), Call("NT", <<StrLit(<<80, 111,
    115, 116, 68, 101, 99, 114, 101, 109, 101, 110, 116, 69, 120, 112, 114,
    101, 115, 115, 105, 111, 110>>)>>)>>)>>)],
  \* lines 1897-1899: rules.set("PostIncrementExpression", () =>
  \* D(Seq(NT("PostfixExpression"), T("++")))
  [name |-> <<80, 111, 115, 116, 73, 110, 99, 114, 101, 109, 101, 110, 116, 69,
    120, 112, 114, 101, 115, 115, 105, 111, 110>>,
   body |-> Call("D", <<Call("Seq", <<Call("NT", <<StrLit(<<80, 111, 115, 116,
    102, 105, 120, 69, 120, 112, 114, 101, 115, 115, 105, 111, 110>>)>>),
    Call("T", <<StrLit(<<43, 43>>)>>)>>)>>)],
  \* lines 1901-1903: rules.set("PostDecrementExpression", () =>
  \* D(Seq(NT("PostfixExpression"), T("--")))
  [name |-> <<80, 111, 115, 116, 68, 101, 99, 114, 101, 109, 101, 110, 116, 69,
    120, 112, 114, 101, 115, 115, 105, 111, 110>>,
   body |-> Call("D", <<Call("Seq", <<Call("NT", <<StrLit(<<80, 111, 115, 116,
    102, 105, 120, 69, 120, 112, 114, 101, 115, 115, 105, 111, 110>>)>>),
    Call("T", <<StrLit(<<45, 45>>)>>)>>)>>)],
  \* lines 1905-1913: rules.set("CastExpression", () =>
  \* D(Ch(0, Seq(T("("), NT("PrimitiveType"), T(")"), NT("UnaryExpression")),
  \* Seq(T("("), NT("ReferenceType"), ZOM(NT("AdditionalBound")), T(")"), NT(
  \* "UnaryExpressionNotPlusMinus")), Seq(T("("), NT("ReferenceType"), ZOM(NT(
  \* "AdditionalBound")), T(")"), NT("LambdaExpression"))))
  [name |-> <<67, 97, 115, 116, 69, 120, 112, 114, 101, 115, 115, 105, 111,
    110>>,
   body |-> Call("D", <<Call("Ch", <<NumLit(0), Call("Seq", <<Call("T",
    <<StrLit(<<40>>)>>), Call("NT", <<StrLit(<<80, 114, 105, 109, 105, 116,
    105, 118, 101, 84, 121, 112, 101>>)>>), Call("T", <<StrLit(<<41>>)>>),
    Call("NT", <<StrLit(<<85, 110, 97, 114, 121, 69, 120, 112, 114, 101, 115,
    115, 105, 111, 110>>)>>)>>), Call("Seq", <<Call("T", <<StrLit(<<40>>)>>),
    Call("NT", <<StrLit(<<82, 101, 102, 101, 114, 101, 110, 99, 101, 84, 121,
    112, 101>>)>>), Call("ZOM", <<Call("NT", <<StrLit(<<65, 100, 100, 105, 116,
    105, 111, 110, 97, 108, 66, 111, 117, 110, 100>>)>>)>>), Call("T",
    <<StrLit(<<41>>)>>), Call("NT", <<StrLit(<<85, 110, 97, 114, 121, 69, 120,
    112, 114, 101, 115, 115, 105, 111, 110, 78, 111, 116, 80, 108, 117, 115,
    77, 105, 110, 117, 115>>)>>)>>), Call("Seq", <<Call("T",
    <<StrLit(<<40>>)>>), Call("NT", <<StrLit(<<82, 101, 102, 101, 114, 101,
    110, 99, 101, 84, 121, 112, 101>>)>>), Call("ZOM", <<Call("NT",
    <<StrLit(<<65, 100, 100, 105, 116, 105, 111, 110, 97, 108, 66, 111, 117,
    110, 100>>)>>)>>), Call("T", <<StrLit(<<41>>)>>), Call("NT", <<StrLit(<<76,
    97, 109, 98, 100, 97, 69, 120, 112, 114, 101, 115, 115, 105, 111,
    110>>)>>)>>)>>)>>)],
  \* lines 1915-1917: rules.set("SwitchExpression", () =>
  \* D(Seq(T("switch"), T("("), NT("Expression"), T(")"), NT("SwitchBlock")))
  [name |-> <<83, 119, 105, 116, 99, 104, 69, 120, 112, 114, 101, 115, 115,
    105, 111, 110>>,
   body |-> Call("D", <<Call("Seq", <<Call("T", <<StrLit(<<115, 119, 105, 116,
    99, 104>>)>>), Call("T", <<StrLit(<<40>>)>>), Call("NT", <<StrLit(<<69,
    120, 112, 114, 101, 115, 115, 105, 111, 110>>)>>), Call("T",
    <<StrLit(<<41>>)>>), Call("NT", <<StrLit(<<83, 119, 105, 116, 99, 104, 66,
    108, 111, 99, 107>>)>>)>>)>>)]
>>

\* Map.set: the body bound to a key is the one the last set of that key gave
Body(ruleSet, id) ==
  LET hit(i) == ruleSet[i].name = id
      hits == SelectSeq([i \in 1..Len(ruleSet) |-> i], hit)
  IN ruleSet[hits[Len(hits)]].body

\* the value of an expression of java25Grammar.ts
RECURSIVE Eval25(_)
Eval25(e) ==
  LET args == [i \in 1..Len(e.a) |-> Eval25(e.a[i])]
  IN CASE e.h = "string" -> Lit(Str(e.s))
       [] e.h = "number" -> Lit(Num(e.n))
       [] e.h = "D" -> D(args)
       [] e.h = "Seq" -> Seq_(args)
       [] e.h = "Ch" -> Ch(args)
       [] e.h = "Opt" -> Opt(args)
       [] e.h = "OOM" -> OOM(args)
       [] e.h = "ZOM" -> ZOM(args)
       [] e.h = "Stk" -> Stk(args)
       [] e.h = "Cmt" -> Cmt(e.a[1].s)
       [] e.h = "T" -> T(e.a[1].s)
       [] e.h = "NT" -> NT(e.a[1].s)

\* calling the factory registered under id
Factory25(id) == Eval25(Body(RuleSet25, id))

\* ops.map(T): the callback receives the element, its index and the array
ArrayMap(f(_, _, _), xs) == [i \in 1..Len(xs) |-> f(xs[i], i - 1, xs)]

\* javaGrammar.ts: the precedence-chain helper, BASE ( (op) BASE )*
chain_MapTerminal(base, ops) ==
  LET Terminal3(s, i, arr) ==
        LTerminal(<<Lit(Str(s)), Lit(Num(i)), Lit(Str(<<>>))>>)
  IN LSequence(<<LNT(base),
                 LZeroOrMore(<<LSequence(<<
                   LChoice(<<Lit(Num(0))>> \o ArrayMap(Terminal3, ops)),
                   LNT(base)>>)>>)>>)

\* the helper without the default index of its Choice
chain_NoIndex(base, ops) ==
  LET T3(s, i, arr) == LT(s)
  IN LSequence(<<LNT(base),
                 LZeroOrMore(<<LSequence(<<
                   LChoice(ArrayMap(T3, ops)),
                   LNT(base)>>)>>)>>)

chain(base, ops) ==
  LET T3(s, i, arr) == LT(s)
  IN LSequence(<<LNT(base),
                 LZeroOrMore(<<LSequence(<<
                   LChoice(<<Lit(Num(0))>> \o ArrayMap(T3, ops)),
                   LNT(base)>>)>>)>>)

\* javaGrammar.ts: the rules.set calls, in file order
RuleSetLegacy == <<
  \* lines 49-56: rules.set("Identifier", () =>
  \* Diagram(Sequence(NT("IdentifierChars"), Comment(
  \* "but not ReservedKeyword, BooleanLiteral, or NullLiteral")))
  [name |-> <<73, 100, 101, 110, 116, 105, 102, 105, 101, 114>>,
   body |-> Call("Diagram", <<Call("Sequence", <<Call("NT", <<StrLit(<<73, 100,
    101, 110, 116, 105, 102, 105, 101, 114, 67, 104, 97, 114, 115>>)>>),
    Call("Comment", <<StrLit(<<98, 117, 116, 32, 110, 111, 116, 32, 82, 101,
    115, 101, 114, 118, 101, 100, 75, 101, 121, 119, 111, 114, 100, 44, 32, 66,
    111, 111, 108, 101, 97, 110, 76, 105, 116, 101, 114, 97, 108, 44, 32, 111,
    114, 32, 78, 117, 108, 108, 76, 105, 116, 101, 114, 97, 108>>)>>)>>)>>)],
  \* lines 58-65: rules.set("IdentifierChars", () =>
  \* Diagram(Sequence(NT("JavaLetter"), ZeroOrMore(NT("JavaLetterOrDigit"))))
  [name |-> <<73, 100, 101, 110, 116, 105, 102, 105, 101, 114, 67, 104, 97,
    114, 115>>,
   body |-> Call("Diagram", <<Call("Sequence", <<Call("NT", <<StrLit(<<74, 97,
    118, 97, 76, 101, 116, 116, 101, 114>>)>>), Call("ZeroOrMore", <<Call("NT",
    <<StrLit(<<74, 97, 118, 97, 76, 101, 116, 116, 101, 114, 79, 114, 68, 105,
    103, 105, 116>>)>>)>>)>>)>>)],
  \* lines 67-69: rules.set("JavaLetter", () =>
  \* Diagram(Comment("any Unicode character that is a 'Java letter'"))
  [name |-> <<74, 97, 118, 97, 76, 101, 116, 116, 101, 114>>,
   body |-> Call("Diagram", <<Call("Comment", <<StrLit(<<97, 110, 121, 32, 85,
    110, 105, 99, 111, 100, 101, 32, 99, 104, 97, 114, 97, 99, 116, 101, 114,
    32, 116, 104, 97, 116, 32, 105, 115, 32, 97, 32, 39, 74, 97, 118, 97, 32,
    108, 101, 116, 116, 101, 114, 39>>)>>)>>)],
  \* lines 71-73: rules.set("JavaLetterOrDigit", () =>
  \* Diagram(Comment("any Unicode character that is a 'Java letter-or-digit'")
  \* )
  [name |-> <<74, 97, 118, 97, 76, 101, 116, 116, 101, 114, 79, 114, 68, 105,
    103, 105, 116>>,
   body |-> Call("Diagram", <<Call("Comment", <<StrLit(<<97, 110, 121, 32, 85,
    110, 105, 99, 111, 100, 101, 32, 99, 104, 97, 114, 97, 99, 116, 101, 114,
    32, 116, 104, 97, 116, 32, 105, 115, 32, 97, 32, 39, 74, 97, 118, 97, 32,
    108, 101, 116, 116, 101, 114, 45, 111, 114, 45, 100, 105, 103, 105, 116,
    39>>)>>)>>)],
  \* lines 75-82: rules.set("TypeIdentifier", () =>
  \* Diagram(Sequence(NT("Identifier"), Comment(
  \* "but not permits, record, sealed, var, or yield")))
  [name |-> <<84, 121, 112, 101, 73, 100, 101, 110, 116, 105, 102, 105, 101,
    114>>,
   body |-> Call("Diagram", <<Call("Sequence", <<Call("NT", <<StrLit(<<73, 100,
    101, 110, 116, 105, 102, 105, 101, 114>>)>>), Call("Comment",
    <<StrLit(<<98, 117, 116, 32, 110, 111, 116, 32, 112, 101, 114, 109, 105,
    116, 115, 44, 32, 114, 101, 99, 111, 114, 100, 44, 32, 115, 101, 97, 108,
    101, 100, 44, 32, 118, 97, 114, 44, 32, 111, 114, 32, 121, 105, 101, 108,
    100>>)>>)>>)>>)],
  \* lines 84-88: rules.set("UnqualifiedMethodIdentifier", () =>
  \* Diagram(Sequence(NT("Identifier"), Comment("but not yield")))
  [name |-> <<85, 110, 113, 117, 97, 108, 105, 102, 105, 101, 100, 77, 101,
    116, 104, 111, 100, 73, 100, 101, 110, 116, 105, 102, 105, 101, 114>>,
   body |-> Call("Diagram", <<Call("Sequence", <<Call("NT", <<StrLit(<<73, 100,
    101, 110, 116, 105, 102, 105, 101, 114>>)>>), Call("Comment",
    <<StrLit(<<98, 117, 116, 32, 110, 111, 116, 32, 121, 105, 101, 108,
    100>>)>>)>>)>>)],
  \* lines 90-102: rules.set("Literal", () =>
  \* Diagram(Choice(0, NT("IntegerLiteral"), NT("FloatingPointLiteral"), NT(
  \* "BooleanLiteral"), NT("CharacterLiteral"), NT("StringLiteral"), NT(
  \* "TextBlock"), NT("NullLiteral")))
  [name |-> <<76, 105, 116, 101, 114, 97, 108>>,
   body |-> Call("Diagram", <<Call("Choice", <<NumLit(0), Call("NT",
    <<StrLit(<<73, 110, 116, 101, 103, 101, 114, 76, 105, 116, 101, 114, 97,
    108>>)>>), Call("NT", <<StrLit(<<70, 108, 111, 97, 116, 105, 110, 103, 80,
    111, 105, 110, 116, 76, 105, 116, 101, 114, 97, 108>>)>>), Call("NT",
    <<StrLit(<<66, 111, 111, 108, 101, 97, 110, 76, 105, 116, 101, 114, 97,
    108>>)>>), Call("NT", <<StrLit(<<67, 104, 97, 114, 97, 99, 116, 101, 114,
    76, 105, 116, 101, 114, 97, 108>>)>>), Call("NT", <<StrLit(<<83, 116, 114,
    105, 110, 103, 76, 105, 116, 101, 114, 97, 108>>)>>), Call("NT",
    <<StrLit(<<84, 101, 120, 116, 66, 108, 111, 99, 107>>)>>), Call("NT",
    <<StrLit(<<78, 117, 108, 108, 76, 105, 116, 101, 114, 97, 108>>)>>)>>)>>)],
  \* lines 106-110: rules.set("Type", () =>
  \* Diagram(Choice(0, NT("PrimitiveType"), NT("ReferenceType")))
  [name |-> <<84, 121, 112, 101>>,
   body |-> Call("Diagram", <<Call("Choice", <<NumLit(0), Call("NT",
    <<StrLit(<<80, 114, 105, 109, 105, 116, 105, 118, 101, 84, 121, 112,
    101>>)>>), Call("NT", <<StrLit(<<82, 101, 102, 101, 114, 101, 110, 99, 101,
    84, 121, 112, 101>>)>>)>>)>>)],
  \* lines 112-119: rules.set("PrimitiveType", () =>
  \* Diagram(Choice(0, Sequence(ZeroOrMore(NT("Annotation")), NT("NumericType"
  \* )), Sequence(ZeroOrMore(NT("Annotation")), T("boolean"))))
  [name |-> <<80, 114, 105, 109, 105, 116, 105, 118, 101, 84, 121, 112, 101>>,
   body |-> Call("Diagram", <<Call("Choice", <<NumLit(0), Call("Sequence",
    <<Call("ZeroOrMore", <<Call("NT", <<StrLit(<<65, 110, 110, 111, 116, 97,
    116, 105, 111, 110>>)>>)>>), Call("NT", <<StrLit(<<78, 117, 109, 101, 114,
    105, 99, 84, 121, 112, 101>>)>>)>>), Call("Sequence", <<Call("ZeroOrMore",
    <<Call("NT", <<StrLit(<<65, 110, 110, 111, 116, 97, 116, 105, 111,
    110>>)>>)>>), Call("T", <<StrLit(<<98, 111, 111, 108, 101, 97,
    110>>)>>)>>)>>)>>)],
  \* lines 121-125: rules.set("NumericType", () =>
  \* Diagram(Choice(0, NT("IntegralType"), NT("FloatingPointType")))
  [name |-> <<78, 117, 109, 101, 114, 105, 99, 84, 121, 112, 101>>,
   body |-> Call("Diagram", <<Call("Choice", <<NumLit(0), Call("NT",
    <<StrLit(<<73, 110, 116, 101, 103, 114, 97, 108, 84, 121, 112, 101>>)>>),
    Call("NT", <<StrLit(<<70, 108, 111, 97, 116, 105, 110, 103, 80, 111, 105,
    110, 116, 84, 121, 112, 101>>)>>)>>)>>)],
  \* lines 127-131: rules.set("IntegralType", () =>
  \* Diagram(Choice(0, T("byte"), T("short"), T("int"), T("long"), T("char")))
  [name |-> <<73, 110, 116, 101, 103, 114, 97, 108, 84, 121, 112, 101>>,
   body |-> Call("Diagram", <<Call("Choice", <<NumLit(0), Call("T",
    <<StrLit(<<98, 121, 116, 101>>)>>), Call("T", <<StrLit(<<115, 104, 111,
    114, 116>>)>>), Call("T", <<StrLit(<<105, 110, 116>>)>>), Call("T",
    <<StrLit(<<108, 111, 110, 103>>)>>), Call("T", <<StrLit(<<99, 104, 97,
    114>>)>>)>>)>>)],
  \* lines 133-135: rules.set("FloatingPointType", () =>
  \* Diagram(Choice(0, T("float"), T("double")))
  [name |-> <<70, 108, 111, 97, 116, 105, 110, 103, 80, 111, 105, 110, 116, 84,
    121, 112, 101>>,
   body |-> Call("Diagram", <<Call("Choice", <<NumLit(0), Call("T",
    <<StrLit(<<102, 108, 111, 97, 116>>)>>), Call("T", <<StrLit(<<100, 111,
    117, 98, 108, 101>>)>>)>>)>>)],
  \* lines 137-145: rules.set("ReferenceType", () =>
  \* Diagram(Choice(0, NT("ClassOrInterfaceType"), NT("TypeVariable"), NT(
  \* "ArrayType")))
  [name |-> <<82, 101, 102, 101, 114, 101, 110, 99, 101, 84, 121, 112, 101>>,
   body |-> Call("Diagram", <<Call("Choice", <<NumLit(0), Call("NT",
    <<StrLit(<<67, 108, 97, 115, 115, 79, 114, 73, 110, 116, 101, 114, 102, 97,
    99, 101, 84, 121, 112, 101>>)>>), Call("NT", <<StrLit(<<84, 121, 112, 101,
    86, 97, 114, 105, 97, 98, 108, 101>>)>>), Call("NT", <<StrLit(<<65, 114,
    114, 97, 121, 84, 121, 112, 101>>)>>)>>)>>)],
  \* lines 147-149: rules.set("ClassOrInterfaceType", () =>
  \* Diagram(Choice(0, NT("ClassType"), NT("InterfaceType")))
  [name |-> <<67, 108, 97, 115, 115, 79, 114, 73, 110, 116, 101, 114, 102, 97,
    99, 101, 84, 121, 112, 101>>,
   body |-> Call("Diagram", <<Call("Choice", <<NumLit(0), Call("NT",
    <<StrLit(<<67, 108, 97, 115, 115, 84, 121, 112, 101>>)>>), Call("NT",
    <<StrLit(<<73, 110, 116, 101, 114, 102, 97, 99, 101, 84, 121, 112,
    101>>)>>)>>)>>)],
  \* lines 151-173: rules.set("ClassType", () =>
  \* Diagram(Choice(0, Sequence(ZeroOrMore(NT("Annotation")), NT(
  \* "TypeIdentifier"), Optional(NT("TypeArguments"))), Sequence(NT(
  \* "PackageName"), T("."), ZeroOrMore(NT("Annotation")), NT("TypeIdentifier"
  \* ), Optional(NT("TypeArguments"))), Sequence(NT("ClassOrInterfaceType"),
  \* T("."), ZeroOrMore(NT("Annotation")), NT("TypeIdentifier"), Optional(NT(
  \* "TypeArguments")))))
  [name |-> <<67, 108, 97, 115, 115, 84, 121, 112, 101>>,
   body |-> Call("Diagram", <<Call("Choice", <<NumLit(0), Call("Sequence",
    <<Call("ZeroOrMore", <<Call("NT", <<StrLit(<<65, 110, 110, 111, 116, 97,
    116, 105, 111, 110>>)>>)>>), Call("NT", <<StrLit(<<84, 121, 112, 101, 73,
    100, 101, 110, 116, 105, 102, 105, 101, 114>>)>>), Call("Optional",
    <<Call("NT", <<StrLit(<<84, 121, 112, 101, 65, 114, 103, 117, 109, 101,
    110, 116, 115>>)>>)>>)>>), Call("Sequence", <<Call("NT", <<StrLit(<<80, 97,
    99, 107, 97, 103, 101, 78, 97, 109, 101>>)>>), Call("T",
    <<StrLit(<<46>>)>>), Call("ZeroOrMore", <<Call("NT", <<StrLit(<<65, 110,
    110, 111, 116, 97, 116, 105, 111, 110>>)>>)>>), Call("NT", <<StrLit(<<84,
    121, 112, 101, 73, 100, 101, 110, 116, 105, 102, 105, 101, 114>>)>>),
    Call("Optional", <<Call("NT", <<StrLit(<<84, 121, 112, 101, 65, 114, 103,
    117, 109, 101, 110, 116, 115>>)>>)>>)>>), Call("Sequence", <<Call("NT",
    <<StrLit(<<67, 108, 97, 115, 115, 79, 114, 73, 110, 116, 101, 114, 102, 97,
    99, 101, 84, 121, 112, 101>>)>>), Call("T", <<StrLit(<<46>>)>>),
    Call("ZeroOrMore", <<Call("NT", <<StrLit(<<65, 110, 110, 111, 116, 97, 116,
    105, 111, 110>>)>>)>>), Call("NT", <<StrLit(<<84, 121, 112, 101, 73, 100,
    101, 110, 116, 105, 102, 105, 101, 114>>)>>), Call("Optional", <<Call("NT",
    <<StrLit(<<84, 121, 112, 101, 65, 114, 103, 117, 109, 101, 110, 116,
    115>>)>>)>>)>>)>>)>>)],
  \* lines 175-177: rules.set("InterfaceType", () =>
  \* Diagram(NT("ClassType"))
  [name |-> <<73, 110, 116, 101, 114, 102, 97, 99, 101, 84, 121, 112, 101>>,
   body |-> Call("Diagram", <<Call("NT", <<StrLit(<<67, 108, 97, 115, 115, 84,
    121, 112, 101>>)>>)>>)],
  \* lines 179-183: rules.set("TypeVariable", () =>
  \* Diagram(Sequence(ZeroOrMore(NT("Annotation")), NT("TypeIdentifier")))
  [name |-> <<84, 121, 112, 101, 86, 97, 114, 105, 97, 98, 108, 101>>,
   body |-> Call("Diagram", <<Call("Sequence", <<Call("ZeroOrMore",
    <<Call("NT", <<StrLit(<<65, 110, 110, 111, 116, 97, 116, 105, 111,
    110>>)>>)>>), Call("NT", <<StrLit(<<84, 121, 112, 101, 73, 100, 101, 110,
    116, 105, 102, 105, 101, 114>>)>>)>>)>>)],
  \* lines 185-193: rules.set("ArrayType", () =>
  \* Diagram(Choice(0, Sequence(NT("PrimitiveType"), NT("Dims")), Sequence(NT(
  \* "ClassOrInterfaceType"), NT("Dims")), Sequence(NT("TypeVariable"), NT(
  \* "Dims"))))
  [name |-> <<65, 114, 114, 97, 121, 84, 121, 112, 101>>,
   body |-> Call("Diagram", <<Call("Choice", <<NumLit(0), Call("Sequence",
    <<Call("NT", <<StrLit(<<80, 114, 105, 109, 105, 116, 105, 118, 101, 84,
    121, 112, 101>>)>>), Call("NT", <<StrLit(<<68, 105, 109, 115>>)>>)>>),
    Call("Sequence", <<Call("NT", <<StrLit(<<67, 108, 97, 115, 115, 79, 114,
    73, 110, 116, 101, 114, 102, 97, 99, 101, 84, 121, 112, 101>>)>>),
    Call("NT", <<StrLit(<<68, 105, 109, 115>>)>>)>>), Call("Sequence",
    <<Call("NT", <<StrLit(<<84, 121, 112, 101, 86, 97, 114, 105, 97, 98, 108,
    101>>)>>), Call("NT", <<StrLit(<<68, 105, 109, 115>>)>>)>>)>>)>>)],
  \* lines 195-201: rules.set("Dims", () =>
  \* Diagram(OneOrMore(Sequence(ZeroOrMore(NT("Annotation")), T("["), T("]")))
  \* )
  [name |-> <<68, 105, 109, 115>>,
   body |-> Call("Diagram", <<Call("OneOrMore", <<Call("Sequence",
    <<Call("ZeroOrMore", <<Call("NT", <<StrLit(<<65, 110, 110, 111, 116, 97,
    116, 105, 111, 110>>)>>)>>), Call("T", <<StrLit(<<91>>)>>), Call("T",
    <<StrLit(<<93>>)>>)>>)>>)>>)],
  \* lines 203-211: rules.set("TypeParameter", () =>
  \* Diagram(Sequence(ZeroOrMore(NT("TypeParameterModifier")), NT(
  \* "TypeIdentifier"), Optional(NT("TypeBound"))))
  [name |-> <<84, 121, 112, 101, 80, 97, 114, 97, 109, 101, 116, 101, 114>>,
   body |-> Call("Diagram", <<Call("Sequence", <<Call("ZeroOrMore",
    <<Call("NT", <<StrLit(<<84, 121, 112, 101, 80, 97, 114, 97, 109, 101, 116,
    101, 114, 77, 111, 100, 105, 102, 105, 101, 114>>)>>)>>), Call("NT",
    <<StrLit(<<84, 121, 112, 101, 73, 100, 101, 110, 116, 105, 102, 105, 101,
    114>>)>>), Call("Optional", <<Call("NT", <<StrLit(<<84, 121, 112, 101, 66,
    111, 117, 110, 100>>)>>)>>)>>)>>)],
  \* lines 213-215: rules.set("TypeParameterModifier", () =>
  \* Diagram(NT("Annotation"))
  [name |-> <<84, 121, 112, 101, 80, 97, 114, 97, 109, 101, 116, 101, 114, 77,
    111, 100, 105, 102, 105, 101, 114>>,
   body |-> Call("Diagram", <<Call("NT", <<StrLit(<<65, 110, 110, 111, 116, 97,
    116, 105, 111, 110>>)>>)>>)],
  \* lines 217-224: rules.set("TypeBound", () =>
  \* Diagram(Choice(0, Sequence(T("extends"), NT("TypeVariable")), Sequence(T(
  \* "extends"), NT("ClassOrInterfaceType"), ZeroOrMore(NT("AdditionalBound"))
  \* )))
  [name |-> <<84, 121, 112, 101, 66, 111, 117, 110, 100>>,
   body |-> Call("Diagram", <<Call("Choice", <<NumLit(0), Call("Sequence",
    <<Call("T", <<StrLit(<<101, 120, 116, 101, 110, 100, 115>>)>>), Call("NT",
    <<StrLit(<<84, 121, 112, 101, 86, 97, 114, 105, 97, 98, 108, 101>>)>>)>>),
    Call("Sequence", <<Call("T", <<StrLit(<<101, 120, 116, 101, 110, 100,
    115>>)>>), Call("NT", <<StrLit(<<67, 108, 97, 115, 115, 79, 114, 73, 110,
    116, 101, 114, 102, 97, 99, 101, 84, 121, 112, 101>>)>>),
    Call("ZeroOrMore", <<Call("NT", <<StrLit(<<65, 100, 100, 105, 116, 105,
    111, 110, 97, 108, 66, 111, 117, 110, 100>>)>>)>>)>>)>>)>>)],
  \* lines 226-228: rules.set("AdditionalBound", () =>
  \* Diagram(Sequence(T("&"), NT("InterfaceType")))
  [name |-> <<65, 100, 100, 105, 116, 105, 111, 110, 97, 108, 66, 111, 117,
    110, 100>>,
   body |-> Call("Diagram", <<Call("Sequence", <<Call("T", <<StrLit(<<38>>)>>),
    Call("NT", <<StrLit(<<73, 110, 116, 101, 114, 102, 97, 99, 101, 84, 121,
    112, 101>>)>>)>>)>>)],
  \* lines 230-232: rules.set("TypeArguments", () =>
  \* Diagram(Sequence(T("<"), NT("TypeArgumentList"), T(">")))
  [name |-> <<84, 121, 112, 101, 65, 114, 103, 117, 109, 101, 110, 116, 115>>,
   body |-> Call("Diagram", <<Call("Sequence", <<Call("T", <<StrLit(<<60>>)>>),
    Call("NT", <<StrLit(<<84, 121, 112, 101, 65, 114, 103, 117, 109, 101, 110,
    116, 76, 105, 115, 116>>)>>), Call("T", <<StrLit(<<62>>)>>)>>)>>)],
  \* lines 234-241: rules.set("TypeArgumentList", () =>
  \* Diagram(Sequence(NT("TypeArgument"), ZeroOrMore(Sequence(T(","), NT(
  \* "TypeArgument")))))
  [name |-> <<84, 121, 112, 101, 65, 114, 103, 117, 109, 101, 110, 116, 76,
    105, 115, 116>>,
   body |-> Call("Diagram", <<Call("Sequence", <<Call("NT", <<StrLit(<<84, 121,
    112, 101, 65, 114, 103, 117, 109, 101, 110, 116>>)>>), Call("ZeroOrMore",
    <<Call("Sequence", <<Call("T", <<StrLit(<<44>>)>>), Call("NT",
    <<StrLit(<<84, 121, 112, 101, 65, 114, 103, 117, 109, 101, 110,
    116>>)>>)>>)>>)>>)>>)],
  \* lines 243-245: rules.set("TypeArgument", () =>
  \* Diagram(Choice(0, NT("ReferenceType"), NT("Wildcard")))
  [name |-> <<84, 121, 112, 101, 65, 114, 103, 117, 109, 101, 110, 116>>,
   body |-> Call("Diagram", <<Call("Choice", <<NumLit(0), Call("NT",
    <<StrLit(<<82, 101, 102, 101, 114, 101, 110, 99, 101, 84, 121, 112,
    101>>)>>), Call("NT", <<StrLit(<<87, 105, 108, 100, 99, 97, 114,
    100>>)>>)>>)>>)],
  \* lines 247-255: rules.set("Wildcard", () =>
  \* Diagram(Sequence(ZeroOrMore(NT("Annotation")), T("?"), Optional(NT(
  \* "WildcardBounds"))))
  [name |-> <<87, 105, 108, 100, 99, 97, 114, 100>>,
   body |-> Call("Diagram", <<Call("Sequence", <<Call("ZeroOrMore",
    <<Call("NT", <<StrLit(<<65, 110, 110, 111, 116, 97, 116, 105, 111,
    110>>)>>)>>), Call("T", <<StrLit(<<63>>)>>), Call("Optional", <<Call("NT",
    <<StrLit(<<87, 105, 108, 100, 99, 97, 114, 100, 66, 111, 117, 110, 100,
    115>>)>>)>>)>>)>>)],
  \* lines 257-264: rules.set("WildcardBounds", () =>
  \* Diagram(Choice(0, Sequence(T("extends"), NT("ReferenceType")), Sequence(
  \* T("super"), NT("ReferenceType"))))
  [name |-> <<87, 105, 108, 100, 99, 97, 114, 100, 66, 111, 117, 110, 100,
    115>>,
   body |-> Call("Diagram", <<Call("Choice", <<NumLit(0), Call("Sequence",
    <<Call("T", <<StrLit(<<101, 120, 116, 101, 110, 100, 115>>)>>), Call("NT",
    <<StrLit(<<82, 101, 102, 101, 114, 101, 110, 99, 101, 84, 121, 112,
    101>>)>>)>>), Call("Sequence", <<Call("T", <<StrLit(<<115, 117, 112, 101,
    114>>)>>), Call("NT", <<StrLit(<<82, 101, 102, 101, 114, 101, 110, 99, 101,
    84, 121, 112, 101>>)>>)>>)>>)>>)],
  \* lines 268-275: rules.set("ModuleName", () =>
  \* Diagram(Sequence(NT("Identifier"), ZeroOrMore(Sequence(T("."), NT(
  \* "Identifier")))))
  [name |-> <<77, 111, 100, 117, 108, 101, 78, 97, 109, 101>>,
   body |-> Call("Diagram", <<Call("Sequence", <<Call("NT", <<StrLit(<<73, 100,
    101, 110, 116, 105, 102, 105, 101, 114>>)>>), Call("ZeroOrMore",
    <<Call("Sequence", <<Call("T", <<StrLit(<<46>>)>>), Call("NT",
    <<StrLit(<<73, 100, 101, 110, 116, 105, 102, 105, 101,
    114>>)>>)>>)>>)>>)>>)],
  \* lines 277-284: rules.set("PackageName", () =>
  \* Diagram(Sequence(NT("Identifier"), ZeroOrMore(Sequence(T("."), NT(
  \* "Identifier")))))
  [name |-> <<80, 97, 99, 107, 97, 103, 101, 78, 97, 109, 101>>,
   body |-> Call("Diagram", <<Call("Sequence", <<Call("NT", <<StrLit(<<73, 100,
    101, 110, 116, 105, 102, 105, 101, 114>>)>>), Call("ZeroOrMore",
    <<Call("Sequence", <<Call("T", <<StrLit(<<46>>)>>), Call("NT",
    <<StrLit(<<73, 100, 101, 110, 116, 105, 102, 105, 101,
    114>>)>>)>>)>>)>>)>>)],
  \* lines 286-293: rules.set("TypeName", () =>
  \* Diagram(Choice(0, NT("TypeIdentifier"), Sequence(NT("PackageOrTypeName"),
  \* T("."), NT("TypeIdentifier"))))
  [name |-> <<84, 121, 112, 101, 78, 97, 109, 101>>,
   body |-> Call("Diagram", <<Call("Choice", <<NumLit(0), Call("NT",
    <<StrLit(<<84, 121, 112, 101, 73, 100, 101, 110, 116, 105, 102, 105, 101,
    114>>)>>), Call("Sequence", <<Call("NT", <<StrLit(<<80, 97, 99, 107, 97,
    103, 101, 79, 114, 84, 121, 112, 101, 78, 97, 109, 101>>)>>), Call("T",
    <<StrLit(<<46>>)>>), Call("NT", <<StrLit(<<84, 121, 112, 101, 73, 100, 101,
    110, 116, 105, 102, 105, 101, 114>>)>>)>>)>>)>>)],
  \* lines 295-302: rules.set("ExpressionName", () =>
  \* Diagram(Choice(0, NT("Identifier"), Sequence(NT("AmbiguousName"), T("."),
  \* NT("Identifier"))))
  [name |-> <<69, 120, 112, 114, 101, 115, 115, 105, 111, 110, 78, 97, 109,
    101>>,
   body |-> Call("Diagram", <<Call("Choice", <<NumLit(0), Call("NT",
    <<StrLit(<<73, 100, 101, 110, 116, 105, 102, 105, 101, 114>>)>>),
    Call("Sequence", <<Call("NT", <<StrLit(<<65, 109, 98, 105, 103, 117, 111,
    117, 115, 78, 97, 109, 101>>)>>), Call("T", <<StrLit(<<46>>)>>), Call("NT",
    <<StrLit(<<73, 100, 101, 110, 116, 105, 102, 105, 101, 114>>)>>)>>)>>)>>)],
  \* lines 304-306: rules.set("MethodName", () =>
  \* Diagram(NT("UnqualifiedMethodIdentifier"))
  [name |-> <<77, 101, 116, 104, 111, 100, 78, 97, 109, 101>>,
   body |-> Call("Diagram", <<Call("NT", <<StrLit(<<85, 110, 113, 117, 97, 108,
    105, 102, 105, 101, 100, 77, 101, 116, 104, 111, 100, 73, 100, 101, 110,
    116, 105, 102, 105, 101, 114>>)>>)>>)],
  \* lines 308-315: rules.set("PackageOrTypeName", () =>
  \* Diagram(Sequence(NT("Identifier"), ZeroOrMore(Sequence(T("."), NT(
  \* "Identifier")))))
  [name |-> <<80, 97, 99, 107, 97, 103, 101, 79, 114, 84, 121, 112, 101, 78,
    97, 109, 101>>,
   body |-> Call("Diagram", <<Call("Sequence", <<Call("NT", <<StrLit(<<73, 100,
    101, 110, 116, 105, 102, 105, 101, 114>>)>>), Call("ZeroOrMore",
    <<Call("Sequence", <<Call("T", <<StrLit(<<46>>)>>), Call("NT",
    <<StrLit(<<73, 100, 101, 110, 116, 105, 102, 105, 101,
    114>>)>>)>>)>>)>>)>>)],
  \* lines 317-324: rules.set("AmbiguousName", () =>
  \* Diagram(Sequence(NT("Identifier"), ZeroOrMore(Sequence(T("."), NT(
  \* "Identifier")))))
  [name |-> <<65, 109, 98, 105, 103, 117, 111, 117, 115, 78, 97, 109, 101>>,
   body |-> Call("Diagram", <<Call("Sequence", <<Call("NT", <<StrLit(<<73, 100,
    101, 110, 116, 105, 102, 105, 101, 114>>)>>), Call("ZeroOrMore",
    <<Call("Sequence", <<Call("T", <<StrLit(<<46>>)>>), Call("NT",
    <<StrLit(<<73, 100, 101, 110, 116, 105, 102, 105, 101,
    114>>)>>)>>)>>)>>)>>)],
  \* lines 328-335: rules.set("CompilationUnit", () =>
  \* Diagram(Choice(0, NT("OrdinaryCompilationUnit"), NT(
  \* "ModularCompilationUnit")))
  [name |-> <<67, 111, 109, 112, 105, 108, 97, 116, 105, 111, 110, 85, 110,
    105, 116>>,
   body |-> Call("Diagram", <<Call("Choice", <<NumLit(0), Call("NT",
    <<StrLit(<<79, 114, 100, 105, 110, 97, 114, 121, 67, 111, 109, 112, 105,
    108, 97, 116, 105, 111, 110, 85, 110, 105, 116>>)>>), Call("NT",
    <<StrLit(<<77, 111, 100, 117, 108, 97, 114, 67, 111, 109, 112, 105, 108,
    97, 116, 105, 111, 110, 85, 110, 105, 116>>)>>)>>)>>)],
  \* lines 337-345: rules.set("OrdinaryCompilationUnit", () =>
  \* Diagram(Sequence(Optional(NT("PackageDeclaration")), ZeroOrMore(NT(
  \* "ImportDeclaration")), ZeroOrMore(NT(
  \* "TopLevelClassOrInterfaceDeclaration"))))
  [name |-> <<79, 114, 100, 105, 110, 97, 114, 121, 67, 111, 109, 112, 105,
    108, 97, 116, 105, 111, 110, 85, 110, 105, 116>>,
   body |-> Call("Diagram", <<Call("Sequence", <<Call("Optional", <<Call("NT",
    <<StrLit(<<80, 97, 99, 107, 97, 103, 101, 68, 101, 99, 108, 97, 114, 97,
    116, 105, 111, 110>>)>>)>>), Call("ZeroOrMore", <<Call("NT", <<StrLit(<<73,
    109, 112, 111, 114, 116, 68, 101, 99, 108, 97, 114, 97, 116, 105, 111,
    110>>)>>)>>), Call("ZeroOrMore", <<Call("NT", <<StrLit(<<84, 111, 112, 76,
    101, 118, 101, 108, 67, 108, 97, 115, 115, 79, 114, 73, 110, 116, 101, 114,
    102, 97, 99, 101, 68, 101, 99, 108, 97, 114, 97, 116, 105, 111,
    110>>)>>)>>)>>)>>)],
  \* lines 347-354: rules.set("ModularCompilationUnit", () =>
  \* Diagram(Sequence(ZeroOrMore(NT("ImportDeclaration")), NT(
  \* "ModuleDeclaration")))
  [name |-> <<77, 111, 100, 117, 108, 97, 114, 67, 111, 109, 112, 105, 108, 97,
    116, 105, 111, 110, 85, 110, 105, 116>>,
   body |-> Call("Diagram", <<Call("Sequence", <<Call("ZeroOrMore",
    <<Call("NT", <<StrLit(<<73, 109, 112, 111, 114, 116, 68, 101, 99, 108, 97,
    114, 97, 116, 105, 111, 110>>)>>)>>), Call("NT", <<StrLit(<<77, 111, 100,
    117, 108, 101, 68, 101, 99, 108, 97, 114, 97, 116, 105, 111,
    110>>)>>)>>)>>)],
  \* lines 356-366: rules.set("PackageDeclaration", () =>
  \* Diagram(Sequence(ZeroOrMore(NT("PackageModifier")), T("package"), NT(
  \* "Identifier"), ZeroOrMore(Sequence(T("."), NT("Identifier"))), T(";")))
  [name |-> <<80, 97, 99, 107, 97, 103, 101, 68, 101, 99, 108, 97, 114, 97,
    116, 105, 111, 110>>,
   body |-> Call("Diagram", <<Call("Sequence", <<Call("ZeroOrMore",
    <<Call("NT", <<StrLit(<<80, 97, 99, 107, 97, 103, 101, 77, 111, 100, 105,
    102, 105, 101, 114>>)>>)>>), Call("T", <<StrLit(<<112, 97, 99, 107, 97,
    103, 101>>)>>), Call("NT", <<StrLit(<<73, 100, 101, 110, 116, 105, 102,
    105, 101, 114>>)>>), Call("ZeroOrMore", <<Call("Sequence", <<Call("T",
    <<StrLit(<<46>>)>>), Call("NT", <<StrLit(<<73, 100, 101, 110, 116, 105,
    102, 105, 101, 114>>)>>)>>)>>), Call("T", <<StrLit(<<59>>)>>)>>)>>)],
  \* lines 368-370: rules.set("PackageModifier", () =>
  \* Diagram(NT("Annotation"))
  [name |-> <<80, 97, 99, 107, 97, 103, 101, 77, 111, 100, 105, 102, 105, 101,
    114>>,
   body |-> Call("Diagram", <<Call("NT", <<StrLit(<<65, 110, 110, 111, 116, 97,
    116, 105, 111, 110>>)>>)>>)],
  \* lines 372-381: rules.set("ImportDeclaration", () =>
  \* Diagram(Choice(0, NT("SingleTypeImportDeclaration"), NT(
  \* "TypeImportOnDemandDeclaration"), NT("SingleStaticImportDeclaration"),
  \* NT("StaticImportOnDemandDeclaration")))
  [name |-> <<73, 109, 112, 111, 114, 116, 68, 101, 99, 108, 97, 114, 97, 116,
    105, 111, 110>>,
   body |-> Call("Diagram", <<Call("Choice", <<NumLit(0), Call("NT",
    <<StrLit(<<83, 105, 110, 103, 108, 101, 84, 121, 112, 101, 73, 109, 112,
    111, 114, 116, 68, 101, 99, 108, 97, 114, 97, 116, 105, 111, 110>>)>>),
    Call("NT", <<StrLit(<<84, 121, 112, 101, 73, 109, 112, 111, 114, 116, 79,
    110, 68, 101, 109, 97, 110, 100, 68, 101, 99, 108, 97, 114, 97, 116, 105,
    111, 110>>)>>), Call("NT", <<StrLit(<<83, 105, 110, 103, 108, 101, 83, 116,
    97, 116, 105, 99, 73, 109, 112, 111, 114, 116, 68, 101, 99, 108, 97, 114,
    97, 116, 105, 111, 110>>)>>), Call("NT", <<StrLit(<<83, 116, 97, 116, 105,
    99, 73, 109, 112, 111, 114, 116, 79, 110, 68, 101, 109, 97, 110, 100, 68,
    101, 99, 108, 97, 114, 97, 116, 105, 111, 110>>)>>)>>)>>)],
  \* lines 383-385: rules.set("SingleTypeImportDeclaration", () =>
  \* Diagram(Sequence(T("import"), NT("TypeName"), T(";")))
  [name |-> <<83, 105, 110, 103, 108, 101, 84, 121, 112, 101, 73, 109, 112,
    111, 114, 116, 68, 101, 99, 108, 97, 114, 97, 116, 105, 111, 110>>,
   body |-> Call("Diagram", <<Call("Sequence", <<Call("T", <<StrLit(<<105, 109,
    112, 111, 114, 116>>)>>), Call("NT", <<StrLit(<<84, 121, 112, 101, 78, 97,
    109, 101>>)>>), Call("T", <<StrLit(<<59>>)>>)>>)>>)],
  \* lines 387-389: rules.set("TypeImportOnDemandDeclaration", () =>
  \* Diagram(Sequence(T("import"), NT("PackageOrTypeName"), T("."), T("*"), T(
  \* ";")))
  [name |-> <<84, 121, 112, 101, 73, 109, 112, 111, 114, 116, 79, 110, 68, 101,
    109, 97, 110, 100, 68, 101, 99, 108, 97, 114, 97, 116, 105, 111, 110>>,
   body |-> Call("Diagram", <<Call("Sequence", <<Call("T", <<StrLit(<<105, 109,
    112, 111, 114, 116>>)>>), Call("NT", <<StrLit(<<80, 97, 99, 107, 97, 103,
    101, 79, 114, 84, 121, 112, 101, 78, 97, 109, 101>>)>>), Call("T",
    <<StrLit(<<46>>)>>), Call("T", <<StrLit(<<42>>)>>), Call("T",
    <<StrLit(<<59>>)>>)>>)>>)],
  \* lines 391-393: rules.set("SingleStaticImportDeclaration", () =>
  \* Diagram(Sequence(T("import"), T("static"), NT("TypeName"), T("."), NT(
  \* "Identifier"), T(";")))
  [name |-> <<83, 105, 110, 103, 108, 101, 83, 116, 97, 116, 105, 99, 73, 109,
    112, 111, 114, 116, 68, 101, 99, 108, 97, 114, 97, 116, 105, 111, 110>>,
   body |-> Call("Diagram", <<Call("Sequence", <<Call("T", <<StrLit(<<105, 109,
    112, 111, 114, 116>>)>>), Call("T", <<StrLit(<<115, 116, 97, 116, 105,
    99>>)>>), Call("NT", <<StrLit(<<84, 121, 112, 101, 78, 97, 109, 101>>)>>),
    Call("T", <<StrLit(<<46>>)>>), Call("NT", <<StrLit(<<73, 100, 101, 110,
    116, 105, 102, 105, 101, 114>>)>>), Call("T", <<StrLit(<<59>>)>>)>>)>>)],
  \* lines 395-397: rules.set("StaticImportOnDemandDeclaration", () =>
  \* Diagram(Sequence(T("import"), T("static"), NT("TypeName"), T("."), T("*"
  \* ), T(";")))
  [name |-> <<83, 116, 97, 116, 105, 99, 73, 109, 112, 111, 114, 116, 79, 110,
    68, 101, 109, 97, 110, 100, 68, 101, 99, 108, 97, 114, 97, 116, 105, 111,
    110>>,
   body |-> Call("Diagram", <<Call("Sequence", <<Call("T", <<StrLit(<<105, 109,
    112, 111, 114, 116>>)>>), Call("T", <<StrLit(<<115, 116, 97, 116, 105,
    99>>)>>), Call("NT", <<StrLit(<<84, 121, 112, 101, 78, 97, 109, 101>>)>>),
    Call("T", <<StrLit(<<46>>)>>), Call("T", <<StrLit(<<42>>)>>), Call("T",
    <<StrLit(<<59>>)>>)>>)>>)],
  \* lines 399-407: rules.set("TopLevelClassOrInterfaceDeclaration", () =>
  \* Diagram(Choice(0, NT("ClassDeclaration"), NT("InterfaceDeclaration"), T(
  \* ";")))
  [name |-> <<84, 111, 112, 76, 101, 118, 101, 108, 67, 108, 97, 115, 115, 79,
    114, 73, 110, 116, 101, 114, 102, 97, 99, 101, 68, 101, 99, 108, 97, 114,
    97, 116, 105, 111, 110>>,
   body |-> Call("Diagram", <<Call("Choice", <<NumLit(0), Call("NT",
    <<StrLit(<<67, 108, 97, 115, 115, 68, 101, 99, 108, 97, 114, 97, 116, 105,
    111, 110>>)>>), Call("NT", <<StrLit(<<73, 110, 116, 101, 114, 102, 97, 99,
    101, 68, 101, 99, 108, 97, 114, 97, 116, 105, 111, 110>>)>>), Call("T",
    <<StrLit(<<59>>)>>)>>)>>)],
  \* lines 409-422: rules.set("ModuleDeclaration", () =>
  \* Diagram(Sequence(ZeroOrMore(NT("Annotation")), Optional(T("open")), T(
  \* "module"), NT("Identifier"), ZeroOrMore(Sequence(T("."), NT("Identifier")
  \* )), T("{"), ZeroOrMore(NT("ModuleDirective")), T("}")))
  [name |-> <<77, 111, 100, 117, 108, 101, 68, 101, 99, 108, 97, 114, 97, 116,
    105, 111, 110>>,
   body |-> Call("Diagram", <<Call("Sequence", <<Call("ZeroOrMore",
    <<Call("NT", <<StrLit(<<65, 110, 110, 111, 116, 97, 116, 105, 111,
    110>>)>>)>>), Call("Optional", <<Call("T", <<StrLit(<<111, 112, 101,
    110>>)>>)>>), Call("T", <<StrLit(<<109, 111, 100, 117, 108, 101>>)>>),
    Call("NT", <<StrLit(<<73, 100, 101, 110, 116, 105, 102, 105, 101,
    114>>)>>), Call("ZeroOrMore", <<Call("Sequence", <<Call("T",
    <<StrLit(<<46>>)>>), Call("NT", <<StrLit(<<73, 100, 101, 110, 116, 105,
    102, 105, 101, 114>>)>>)>>)>>), Call("T", <<StrLit(<<123>>)>>),
    Call("ZeroOrMore", <<Call("NT", <<StrLit(<<77, 111, 100, 117, 108, 101, 68,
    105, 114, 101, 99, 116, 105, 118, 101>>)>>)>>), Call("T",
    <<StrLit(<<125>>)>>)>>)>>)],
  \* lines 424-434: rules.set("ModuleDirective", () =>
  \* Diagram(Choice(0, Sequence(T("requires"), ZeroOrMore(NT(
  \* "RequiresModifier")), NT("ModuleName"), T(";")), Sequence(T("exports"),
  \* NT("PackageName"), Optional(Sequence(T("to"), NT("ModuleName"),
  \* ZeroOrMore(Sequence(T(","), NT("ModuleName"))))), T(";")), Sequence(T(
  \* "opens"), NT("PackageName"), Optional(Sequence(T("to"), NT("ModuleName"),
  \* ZeroOrMore(Sequence(T(","), NT("ModuleName"))))), T(";")), Sequence(T(
  \* "uses"), NT("TypeName"), T(";")), Sequence(T("provides"), NT("TypeName"),
  \* T("with"), NT("TypeName"), ZeroOrMore(Sequence(T(","), NT("TypeName"))),
  \* T(";"))))
  [name |-> <<77, 111, 100, 117, 108, 101, 68, 105, 114, 101, 99, 116, 105,
    118, 101>>,
   body |-> Call("Diagram", <<Call("Choice", <<NumLit(0), Call("Sequence",
    <<Call("T", <<StrLit(<<114, 101, 113, 117, 105, 114, 101, 115>>)>>),
    Call("ZeroOrMore", <<Call("NT", <<StrLit(<<82, 101, 113, 117, 105, 114,
    101, 115, 77, 111, 100, 105, 102, 105, 101, 114>>)>>)>>), Call("NT",
    <<StrLit(<<77, 111, 100, 117, 108, 101, 78, 97, 109, 101>>)>>), Call("T",
    <<StrLit(<<59>>)>>)>>), Call("Sequence", <<Call("T", <<StrLit(<<101, 120,
    112, 111, 114, 116, 115>>)>>), Call("NT", <<StrLit(<<80, 97, 99, 107, 97,
    103, 101, 78, 97, 109, 101>>)>>), Call("Optional", <<Call("Sequence",
    <<Call("T", <<StrLit(<<116, 111>>)>>), Call("NT", <<StrLit(<<77, 111, 100,
    117, 108, 101, 78, 97, 109, 101>>)>>), Call("ZeroOrMore",
    <<Call("Sequence", <<Call("T", <<StrLit(<<44>>)>>), Call("NT",
    <<StrLit(<<77, 111, 100, 117, 108, 101, 78, 97, 109, 101>>)>>)>>)>>)>>)>>),
    Call("T", <<StrLit(<<59>>)>>)>>), Call("Sequence", <<Call("T",
    <<StrLit(<<111, 112, 101, 110, 115>>)>>), Call("NT", <<StrLit(<<80, 97, 99,
    107, 97, 103, 101, 78, 97, 109, 101>>)>>), Call("Optional",
    <<Call("Sequence", <<Call("T", <<StrLit(<<116, 111>>)>>), Call("NT",
    <<StrLit(<<77, 111, 100, 117, 108, 101, 78, 97, 109, 101>>)>>),
    Call("ZeroOrMore", <<Call("Sequence", <<Call("T", <<StrLit(<<44>>)>>),
    Call("NT", <<StrLit(<<77, 111, 100, 117, 108, 101, 78, 97, 109,
    101>>)>>)>>)>>)>>)>>), Call("T", <<StrLit(<<59>>)>>)>>), Call("Sequence",
    <<Call("T", <<StrLit(<<117, 115, 101, 115>>)>>), Call("NT", <<StrLit(<<84,
    121, 112, 101, 78, 97, 109, 101>>)>>), Call("T", <<StrLit(<<59>>)>>)>>),
    Call("Sequence", <<Call("T", <<StrLit(<<112, 114, 111, 118, 105, 100, 101,
    115>>)>>), Call("NT", <<StrLit(<<84, 121, 112, 101, 78, 97, 109, 101>>)>>),
    Call("T", <<StrLit(<<119, 105, 116, 104>>)>>), Call("NT", <<StrLit(<<84,
    121, 112, 101, 78, 97, 109, 101>>)>>), Call("ZeroOrMore",
    <<Call("Sequence", <<Call("T", <<StrLit(<<44>>)>>), Call("NT",
    <<StrLit(<<84, 121, 112, 101, 78, 97, 109, 101>>)>>)>>)>>), Call("T",
    <<StrLit(<<59>>)>>)>>)>>)>>)],
  \* lines 436-438: rules.set("RequiresModifier", () =>
  \* Diagram(Choice(0, T("transitive"), T("static")))
  [name |-> <<82, 101, 113, 117, 105, 114, 101, 115, 77, 111, 100, 105, 102,
    105, 101, 114>>,
   body |-> Call("Diagram", <<Call("Choice", <<NumLit(0), Call("T",
    <<StrLit(<<116, 114, 97, 110, 115, 105, 116, 105, 118, 101>>)>>), Call("T",
    <<StrLit(<<115, 116, 97, 116, 105, 99>>)>>)>>)>>)],
  \* lines 442-450: rules.set("ClassDeclaration", () =>
  \* Diagram(Choice(0, NT("NormalClassDeclaration"), NT("EnumDeclaration"),
  \* NT("RecordDeclaration")))
  [name |-> <<67, 108, 97, 115, 115, 68, 101, 99, 108, 97, 114, 97, 116, 105,
    111, 110>>,
   body |-> Call("Diagram", <<Call("Choice", <<NumLit(0), Call("NT",
    <<StrLit(<<78, 111, 114, 109, 97, 108, 67, 108, 97, 115, 115, 68, 101, 99,
    108, 97, 114, 97, 116, 105, 111, 110>>)>>), Call("NT", <<StrLit(<<69, 110,
    117, 109, 68, 101, 99, 108, 97, 114, 97, 116, 105, 111, 110>>)>>),
    Call("NT", <<StrLit(<<82, 101, 99, 111, 114, 100, 68, 101, 99, 108, 97,
    114, 97, 116, 105, 111, 110>>)>>)>>)>>)],
  \* lines 452-465: rules.set("NormalClassDeclaration", () =>
  \* Diagram(Sequence(ZeroOrMore(NT("ClassModifier")), T("class"), NT(
  \* "TypeIdentifier"), Optional(NT("TypeParameters")), Optional(NT(
  \* "ClassExtends")), Optional(NT("ClassImplements")), Optional(NT(
  \* "ClassPermits")), NT("ClassBody")))
  [name |-> <<78, 111, 114, 109, 97, 108, 67, 108, 97, 115, 115, 68, 101, 99,
    108, 97, 114, 97, 116, 105, 111, 110>>,
   body |-> Call("Diagram", <<Call("Sequence", <<Call("ZeroOrMore",
    <<Call("NT", <<StrLit(<<67, 108, 97, 115, 115, 77, 111, 100, 105, 102, 105,
    101, 114>>)>>)>>), Call("T", <<StrLit(<<99, 108, 97, 115, 115>>)>>),
    Call("NT", <<StrLit(<<84, 121, 112, 101, 73, 100, 101, 110, 116, 105, 102,
    105, 101, 114>>)>>), Call("Optional", <<Call("NT", <<StrLit(<<84, 121, 112,
    101, 80, 97, 114, 97, 109, 101, 116, 101, 114, 115>>)>>)>>),
    Call("Optional", <<Call("NT", <<StrLit(<<67, 108, 97, 115, 115, 69, 120,
    116, 101, 110, 100, 115>>)>>)>>), Call("Optional", <<Call("NT",
    <<StrLit(<<67, 108, 97, 115, 115, 73, 109, 112, 108, 101, 109, 101, 110,
    116, 115>>)>>)>>), Call("Optional", <<Call("NT", <<StrLit(<<67, 108, 97,
    115, 115, 80, 101, 114, 109, 105, 116, 115>>)>>)>>), Call("NT",
    <<StrLit(<<67, 108, 97, 115, 115, 66, 111, 100, 121>>)>>)>>)>>)],
  \* lines 467-476: rules.set("ClassModifier", () =>
  \* Diagram(Choice(0, NT("Annotation"), T("public"), T("protected"), T(
  \* "private"), T("abstract"), T("static"), T("final"), T("sealed"), T(
  \* "non-sealed"), T("strictfp")))
  [name |-> <<67, 108, 97, 115, 115, 77, 111, 100, 105, 102, 105, 101, 114>>,
   body |-> Call("Diagram", <<Call("Choice", <<NumLit(0), Call("NT",
    <<StrLit(<<65, 110, 110, 111, 116, 97, 116, 105, 111, 110>>)>>), Call("T",
    <<StrLit(<<112, 117, 98, 108, 105, 99>>)>>), Call("T", <<StrLit(<<112, 114,
    111, 116, 101, 99, 116, 101, 100>>)>>), Call("T", <<StrLit(<<112, 114, 105,
    118, 97, 116, 101>>)>>), Call("T", <<StrLit(<<97, 98, 115, 116, 114, 97,
    99, 116>>)>>), Call("T", <<StrLit(<<115, 116, 97, 116, 105, 99>>)>>),
    Call("T", <<StrLit(<<102, 105, 110, 97, 108>>)>>), Call("T",
    <<StrLit(<<115, 101, 97, 108, 101, 100>>)>>), Call("T", <<StrLit(<<110,
    111, 110, 45, 115, 101, 97, 108, 101, 100>>)>>), Call("T", <<StrLit(<<115,
    116, 114, 105, 99, 116, 102, 112>>)>>)>>)>>)],
  \* lines 478-480: rules.set("TypeParameters", () =>
  \* Diagram(Sequence(T("<"), NT("TypeParameterList"), T(">")))
  [name |-> <<84, 121, 112, 101, 80, 97, 114, 97, 109, 101, 116, 101, 114,
    115>>,
   body |-> Call("Diagram", <<Call("Sequence", <<Call("T", <<StrLit(<<60>>)>>),
    Call("NT", <<StrLit(<<84, 121, 112, 101, 80, 97, 114, 97, 109, 101, 116,
    101, 114, 76, 105, 115, 116>>)>>), Call("T", <<StrLit(<<62>>)>>)>>)>>)],
  \* lines 482-489: rules.set("TypeParameterList", () =>
  \* Diagram(Sequence(NT("TypeParameter"), ZeroOrMore(Sequence(T(","), NT(
  \* "TypeParameter")))))
  [name |-> <<84, 121, 112, 101, 80, 97, 114, 97, 109, 101, 116, 101, 114, 76,
    105, 115, 116>>,
   body |-> Call("Diagram", <<Call("Sequence", <<Call("NT", <<StrLit(<<84, 121,
    112, 101, 80, 97, 114, 97, 109, 101, 116, 101, 114>>)>>),
    Call("ZeroOrMore", <<Call("Sequence", <<Call("T", <<StrLit(<<44>>)>>),
    Call("NT", <<StrLit(<<84, 121, 112, 101, 80, 97, 114, 97, 109, 101, 116,
    101, 114>>)>>)>>)>>)>>)>>)],
  \* lines 491-493: rules.set("ClassExtends", () =>
  \* Diagram(Sequence(T("extends"), NT("ClassType")))
  [name |-> <<67, 108, 97, 115, 115, 69, 120, 116, 101, 110, 100, 115>>,
   body |-> Call("Diagram", <<Call("Sequence", <<Call("T", <<StrLit(<<101, 120,
    116, 101, 110, 100, 115>>)>>), Call("NT", <<StrLit(<<67, 108, 97, 115, 115,
    84, 121, 112, 101>>)>>)>>)>>)],
  \* lines 495-497: rules.set("ClassImplements", () =>
  \* Diagram(Sequence(T("implements"), NT("InterfaceTypeList")))
  [name |-> <<67, 108, 97, 115, 115, 73, 109, 112, 108, 101, 109, 101, 110,
    116, 115>>,
   body |-> Call("Diagram", <<Call("Sequence", <<Call("T", <<StrLit(<<105, 109,
    112, 108, 101, 109, 101, 110, 116, 115>>)>>), Call("NT", <<StrLit(<<73,
    110, 116, 101, 114, 102, 97, 99, 101, 84, 121, 112, 101, 76, 105, 115,
    116>>)>>)>>)>>)],
  \* lines 499-506: rules.set("InterfaceTypeList", () =>
  \* Diagram(Sequence(NT("InterfaceType"), ZeroOrMore(Sequence(T(","), NT(
  \* "InterfaceType")))))
  [name |-> <<73, 110, 116, 101, 114, 102, 97, 99, 101, 84, 121, 112, 101, 76,
    105, 115, 116>>,
   body |-> Call("Diagram", <<Call("Sequence", <<Call("NT", <<StrLit(<<73, 110,
    116, 101, 114, 102, 97, 99, 101, 84, 121, 112, 101>>)>>),
    Call("ZeroOrMore", <<Call("Sequence", <<Call("T", <<StrLit(<<44>>)>>),
    Call("NT", <<StrLit(<<73, 110, 116, 101, 114, 102, 97, 99, 101, 84, 121,
    112, 101>>)>>)>>)>>)>>)>>)],
  \* lines 508-516: rules.set("ClassPermits", () =>
  \* Diagram(Sequence(T("permits"), NT("TypeName"), ZeroOrMore(Sequence(T(","
  \* ), NT("TypeName")))))
  [name |-> <<67, 108, 97, 115, 115, 80, 101, 114, 109, 105, 116, 115>>,
   body |-> Call("Diagram", <<Call("Sequence", <<Call("T", <<StrLit(<<112, 101,
    114, 109, 105, 116, 115>>)>>), Call("NT", <<StrLit(<<84, 121, 112, 101, 78,
    97, 109, 101>>)>>), Call("ZeroOrMore", <<Call("Sequence", <<Call("T",
    <<StrLit(<<44>>)>>), Call("NT", <<StrLit(<<84, 121, 112, 101, 78, 97, 109,
    101>>)>>)>>)>>)>>)>>)],
  \* lines 518-522: rules.set("ClassBody", () =>
  \* Diagram(Sequence(T("{"), ZeroOrMore(NT("ClassBodyDeclaration")), T("}")))
  [name |-> <<67, 108, 97, 115, 115, 66, 111, 100, 121>>,
   body |-> Call("Diagram", <<Call("Sequence", <<Call("T",
    <<StrLit(<<123>>)>>), Call("ZeroOrMore", <<Call("NT", <<StrLit(<<67, 108,
    97, 115, 115, 66, 111, 100, 121, 68, 101, 99, 108, 97, 114, 97, 116, 105,
    111, 110>>)>>)>>), Call("T", <<StrLit(<<125>>)>>)>>)>>)],
  \* lines 524-533: rules.set("ClassBodyDeclaration", () =>
  \* Diagram(Choice(0, NT("ClassMemberDeclaration"), NT("InstanceInitializer"
  \* ), NT("StaticInitializer"), NT("ConstructorDeclaration")))
  [name |-> <<67, 108, 97, 115, 115, 66, 111, 100, 121, 68, 101, 99, 108, 97,
    114, 97, 116, 105, 111, 110>>,
   body |-> Call("Diagram", <<Call("Choice", <<NumLit(0), Call("NT",
    <<StrLit(<<67, 108, 97, 115, 115, 77, 101, 109, 98, 101, 114, 68, 101, 99,
    108, 97, 114, 97, 116, 105, 111, 110>>)>>), Call("NT", <<StrLit(<<73, 110,
    115, 116, 97, 110, 99, 101, 73, 110, 105, 116, 105, 97, 108, 105, 122, 101,
    114>>)>>), Call("NT", <<StrLit(<<83, 116, 97, 116, 105, 99, 73, 110, 105,
    116, 105, 97, 108, 105, 122, 101, 114>>)>>), Call("NT", <<StrLit(<<67, 111,
    110, 115, 116, 114, 117, 99, 116, 111, 114, 68, 101, 99, 108, 97, 114, 97,
    116, 105, 111, 110>>)>>)>>)>>)],
  \* lines 535-545: rules.set("ClassMemberDeclaration", () =>
  \* Diagram(Choice(0, NT("FieldDeclaration"), NT("MethodDeclaration"), NT(
  \* "ClassDeclaration"), NT("InterfaceDeclaration"), T(";")))
  [name |-> <<67, 108, 97, 115, 115, 77, 101, 109, 98, 101, 114, 68, 101, 99,
    108, 97, 114, 97, 116, 105, 111, 110>>,
   body |-> Call("Diagram", <<Call("Choice", <<NumLit(0), Call("NT",
    <<StrLit(<<70, 105, 101, 108, 100, 68, 101, 99, 108, 97, 114, 97, 116, 105,
    111, 110>>)>>), Call("NT", <<StrLit(<<77, 101, 116, 104, 111, 100, 68, 101,
    99, 108, 97, 114, 97, 116, 105, 111, 110>>)>>), Call("NT", <<StrLit(<<67,
    108, 97, 115, 115, 68, 101, 99, 108, 97, 114, 97, 116, 105, 111, 110>>)>>),
    Call("NT", <<StrLit(<<73, 110, 116, 101, 114, 102, 97, 99, 101, 68, 101,
    99, 108, 97, 114, 97, 116, 105, 111, 110>>)>>), Call("T",
    <<StrLit(<<59>>)>>)>>)>>)],
  \* lines 547-556: rules.set("FieldDeclaration", () =>
  \* Diagram(Sequence(ZeroOrMore(NT("FieldModifier")), NT("UnannType"), NT(
  \* "VariableDeclaratorList"), T(";")))
  [name |-> <<70, 105, 101, 108, 100, 68, 101, 99, 108, 97, 114, 97, 116, 105,
    111, 110>>,
   body |-> Call("Diagram", <<Call("Sequence", <<Call("ZeroOrMore",
    <<Call("NT", <<StrLit(<<70, 105, 101, 108, 100, 77, 111, 100, 105, 102,
    105, 101, 114>>)>>)>>), Call("NT", <<StrLit(<<85, 110, 97, 110, 110, 84,
    121, 112, 101>>)>>), Call("NT", <<StrLit(<<86, 97, 114, 105, 97, 98, 108,
    101, 68, 101, 99, 108, 97, 114, 97, 116, 111, 114, 76, 105, 115, 116>>)>>),
    Call("T", <<StrLit(<<59>>)>>)>>)>>)],
  \* lines 558-566: rules.set("FieldModifier", () =>
  \* Diagram(Choice(0, NT("Annotation"), T("public"), T("protected"), T(
  \* "private"), T("static"), T("final"), T("transient"), T("volatile")))
  [name |-> <<70, 105, 101, 108, 100, 77, 111, 100, 105, 102, 105, 101, 114>>,
   body |-> Call("Diagram", <<Call("Choice", <<NumLit(0), Call("NT",
    <<StrLit(<<65, 110, 110, 111, 116, 97, 116, 105, 111, 110>>)>>), Call("T",
    <<StrLit(<<112, 117, 98, 108, 105, 99>>)>>), Call("T", <<StrLit(<<112, 114,
    111, 116, 101, 99, 116, 101, 100>>)>>), Call("T", <<StrLit(<<112, 114, 105,
    118, 97, 116, 101>>)>>), Call("T", <<StrLit(<<115, 116, 97, 116, 105,
    99>>)>>), Call("T", <<StrLit(<<102, 105, 110, 97, 108>>)>>), Call("T",
    <<StrLit(<<116, 114, 97, 110, 115, 105, 101, 110, 116>>)>>), Call("T",
    <<StrLit(<<118, 111, 108, 97, 116, 105, 108, 101>>)>>)>>)>>)],
  \* lines 568-575: rules.set("VariableDeclaratorList", () =>
  \* Diagram(Sequence(NT("VariableDeclarator"), ZeroOrMore(Sequence(T(","),
  \* NT("VariableDeclarator")))))
  [name |-> <<86, 97, 114, 105, 97, 98, 108, 101, 68, 101, 99, 108, 97, 114,
    97, 116, 111, 114, 76, 105, 115, 116>>,
   body |-> Call("Diagram", <<Call("Sequence", <<Call("NT", <<StrLit(<<86, 97,
    114, 105, 97, 98, 108, 101, 68, 101, 99, 108, 97, 114, 97, 116, 111,
    114>>)>>), Call("ZeroOrMore", <<Call("Sequence", <<Call("T",
    <<StrLit(<<44>>)>>), Call("NT", <<StrLit(<<86, 97, 114, 105, 97, 98, 108,
    101, 68, 101, 99, 108, 97, 114, 97, 116, 111, 114>>)>>)>>)>>)>>)>>)],
  \* lines 577-584: rules.set("VariableDeclarator", () =>
  \* Diagram(Sequence(NT("VariableDeclaratorId"), Optional(Sequence(T("="),
  \* NT("VariableInitializer")))))
  [name |-> <<86, 97, 114, 105, 97, 98, 108, 101, 68, 101, 99, 108, 97, 114,
    97, 116, 111, 114>>,
   body |-> Call("Diagram", <<Call("Sequence", <<Call("NT", <<StrLit(<<86, 97,
    114, 105, 97, 98, 108, 101, 68, 101, 99, 108, 97, 114, 97, 116, 111, 114,
    73, 100>>)>>), Call("Optional", <<Call("Sequence", <<Call("T",
    <<StrLit(<<61>>)>>), Call("NT", <<StrLit(<<86, 97, 114, 105, 97, 98, 108,
    101, 73, 110, 105, 116, 105, 97, 108, 105, 122, 101,
    114>>)>>)>>)>>)>>)>>)],
  \* lines 586-593: rules.set("VariableDeclaratorId", () =>
  \* Diagram(Choice(0, Sequence(NT("Identifier"), Optional(NT("Dims"))), T("_"
  \* )))
  [name |-> <<86, 97, 114, 105, 97, 98, 108, 101, 68, 101, 99, 108, 97, 114,
    97, 116, 111, 114, 73, 100>>,
   body |-> Call("Diagram", <<Call("Choice", <<NumLit(0), Call("Sequence",
    <<Call("NT", <<StrLit(<<73, 100, 101, 110, 116, 105, 102, 105, 101,
    114>>)>>), Call("Optional", <<Call("NT", <<StrLit(<<68, 105, 109,
    115>>)>>)>>)>>), Call("T", <<StrLit(<<95>>)>>)>>)>>)],
  \* lines 595-597: rules.set("VariableInitializer", () =>
  \* Diagram(Choice(0, NT("Expression"), NT("ArrayInitializer")))
  [name |-> <<86, 97, 114, 105, 97, 98, 108, 101, 73, 110, 105, 116, 105, 97,
    108, 105, 122, 101, 114>>,
   body |-> Call("Diagram", <<Call("Choice", <<NumLit(0), Call("NT",
    <<StrLit(<<69, 120, 112, 114, 101, 115, 115, 105, 111, 110>>)>>),
    Call("NT", <<StrLit(<<65, 114, 114, 97, 121, 73, 110, 105, 116, 105, 97,
    108, 105, 122, 101, 114>>)>>)>>)>>)],
  \* lines 599-601: rules.set("UnannType", () =>
  \* Diagram(Choice(0, NT("UnannPrimitiveType"), NT("UnannReferenceType")))
  [name |-> <<85, 110, 97, 110, 110, 84, 121, 112, 101>>,
   body |-> Call("Diagram", <<Call("Choice", <<NumLit(0), Call("NT",
    <<StrLit(<<85, 110, 97, 110, 110, 80, 114, 105, 109, 105, 116, 105, 118,
    101, 84, 121, 112, 101>>)>>), Call("NT", <<StrLit(<<85, 110, 97, 110, 110,
    82, 101, 102, 101, 114, 101, 110, 99, 101, 84, 121, 112, 101>>)>>)>>)>>)],
  \* lines 603-605: rules.set("UnannPrimitiveType", () =>
  \* Diagram(Choice(0, NT("NumericType"), T("boolean")))
  [name |-> <<85, 110, 97, 110, 110, 80, 114, 105, 109, 105, 116, 105, 118,
    101, 84, 121, 112, 101>>,
   body |-> Call("Diagram", <<Call("Choice", <<NumLit(0), Call("NT",
    <<StrLit(<<78, 117, 109, 101, 114, 105, 99, 84, 121, 112, 101>>)>>),
    Call("T", <<StrLit(<<98, 111, 111, 108, 101, 97, 110>>)>>)>>)>>)],
  \* lines 607-615: rules.set("UnannReferenceType", () =>
  \* Diagram(Choice(0, NT("UnannClassOrInterfaceType"), NT("UnannTypeVariable"
  \* ), NT("UnannArrayType")))
  [name |-> <<85, 110, 97, 110, 110, 82, 101, 102, 101, 114, 101, 110, 99, 101,
    84, 121, 112, 101>>,
   body |-> Call("Diagram", <<Call("Choice", <<NumLit(0), Call("NT",
    <<StrLit(<<85, 110, 97, 110, 110, 67, 108, 97, 115, 115, 79, 114, 73, 110,
    116, 101, 114, 102, 97, 99, 101, 84, 121, 112, 101>>)>>), Call("NT",
    <<StrLit(<<85, 110, 97, 110, 110, 84, 121, 112, 101, 86, 97, 114, 105, 97,
    98, 108, 101>>)>>), Call("NT", <<StrLit(<<85, 110, 97, 110, 110, 65, 114,
    114, 97, 121, 84, 121, 112, 101>>)>>)>>)>>)],
  \* lines 617-619: rules.set("UnannClassOrInterfaceType", () =>
  \* Diagram(Choice(0, NT("UnannClassType"), NT("UnannInterfaceType")))
  [name |-> <<85, 110, 97, 110, 110, 67, 108, 97, 115, 115, 79, 114, 73, 110,
    116, 101, 114, 102, 97, 99, 101, 84, 121, 112, 101>>,
   body |-> Call("Diagram", <<Call("Choice", <<NumLit(0), Call("NT",
    <<StrLit(<<85, 110, 97, 110, 110, 67, 108, 97, 115, 115, 84, 121, 112,
    101>>)>>), Call("NT", <<StrLit(<<85, 110, 97, 110, 110, 73, 110, 116, 101,
    114, 102, 97, 99, 101, 84, 121, 112, 101>>)>>)>>)>>)],
  \* lines 621-629: rules.set("UnannClassType", () =>
  \* Diagram(Choice(0, Sequence(NT("TypeIdentifier"), Optional(NT(
  \* "TypeArguments"))), Sequence(NT("PackageName"), T("."), ZeroOrMore(NT(
  \* "Annotation")), NT("TypeIdentifier"), Optional(NT("TypeArguments"))),
  \* Sequence(NT("UnannClassOrInterfaceType"), T("."), ZeroOrMore(NT(
  \* "Annotation")), NT("TypeIdentifier"), Optional(NT("TypeArguments")))))
  [name |-> <<85, 110, 97, 110, 110, 67, 108, 97, 115, 115, 84, 121, 112,
    101>>,
   body |-> Call("Diagram", <<Call("Choice", <<NumLit(0), Call("Sequence",
    <<Call("NT", <<StrLit(<<84, 121, 112, 101, 73, 100, 101, 110, 116, 105,
    102, 105, 101, 114>>)>>), Call("Optional", <<Call("NT", <<StrLit(<<84, 121,
    112, 101, 65, 114, 103, 117, 109, 101, 110, 116, 115>>)>>)>>)>>),
    Call("Sequence", <<Call("NT", <<StrLit(<<80, 97, 99, 107, 97, 103, 101, 78,
    97, 109, 101>>)>>), Call("T", <<StrLit(<<46>>)>>), Call("ZeroOrMore",
    <<Call("NT", <<StrLit(<<65, 110, 110, 111, 116, 97, 116, 105, 111,
    110>>)>>)>>), Call("NT", <<StrLit(<<84, 121, 112, 101, 73, 100, 101, 110,
    116, 105, 102, 105, 101, 114>>)>>), Call("Optional", <<Call("NT",
    <<StrLit(<<84, 121, 112, 101, 65, 114, 103, 117, 109, 101, 110, 116,
    115>>)>>)>>)>>), Call("Sequence", <<Call("NT", <<StrLit(<<85, 110, 97, 110,
    110, 67, 108, 97, 115, 115, 79, 114, 73, 110, 116, 101, 114, 102, 97, 99,
    101, 84, 121, 112, 101>>)>>), Call("T", <<StrLit(<<46>>)>>),
    Call("ZeroOrMore", <<Call("NT", <<StrLit(<<65, 110, 110, 111, 116, 97, 116,
    105, 111, 110>>)>>)>>), Call("NT", <<StrLit(<<84, 121, 112, 101, 73, 100,
    101, 110, 116, 105, 102, 105, 101, 114>>)>>), Call("Optional", <<Call("NT",
    <<StrLit(<<84, 121, 112, 101, 65, 114, 103, 117, 109, 101, 110, 116,
    115>>)>>)>>)>>)>>)>>)],
  \* lines 631-633: rules.set("UnannInterfaceType", () =>
  \* Diagram(NT("UnannClassType"))
  [name |-> <<85, 110, 97, 110, 110, 73, 110, 116, 101, 114, 102, 97, 99, 101,
    84, 121, 112, 101>>,
   body |-> Call("Diagram", <<Call("NT", <<StrLit(<<85, 110, 97, 110, 110, 67,
    108, 97, 115, 115, 84, 121, 112, 101>>)>>)>>)],
  \* lines 635-637: rules.set("UnannTypeVariable", () =>
  \* Diagram(NT("TypeIdentifier"))
  [name |-> <<85, 110, 97, 110, 110, 84, 121, 112, 101, 86, 97, 114, 105, 97,
    98, 108, 101>>,
   body |-> Call("Diagram", <<Call("NT", <<StrLit(<<84, 121, 112, 101, 73, 100,
    101, 110, 116, 105, 102, 105, 101, 114>>)>>)>>)],
  \* lines 639-647: rules.set("UnannArrayType", () =>
  \* Diagram(Choice(0, Sequence(NT("UnannPrimitiveType"), NT("Dims")),
  \* Sequence(NT("UnannClassOrInterfaceType"), NT("Dims")), Sequence(NT(
  \* "UnannTypeVariable"), NT("Dims"))))
  [name |-> <<85, 110, 97, 110, 110, 65, 114, 114, 97, 121, 84, 121, 112,
    101>>,
   body |-> Call("Diagram", <<Call("Choice", <<NumLit(0), Call("Sequence",
    <<Call("NT", <<StrLit(<<85, 110, 97, 110, 110, 80, 114, 105, 109, 105, 116,
    105, 118, 101, 84, 121, 112, 101>>)>>), Call("NT", <<StrLit(<<68, 105, 109,
    115>>)>>)>>), Call("Sequence", <<Call("NT", <<StrLit(<<85, 110, 97, 110,
    110, 67, 108, 97, 115, 115, 79, 114, 73, 110, 116, 101, 114, 102, 97, 99,
    101, 84, 121, 112, 101>>)>>), Call("NT", <<StrLit(<<68, 105, 109,
    115>>)>>)>>), Call("Sequence", <<Call("NT", <<StrLit(<<85, 110, 97, 110,
    110, 84, 121, 112, 101, 86, 97, 114, 105, 97, 98, 108, 101>>)>>),
    Call("NT", <<StrLit(<<68, 105, 109, 115>>)>>)>>)>>)>>)],
  \* lines 649-657: rules.set("MethodDeclaration", () =>
  \* Diagram(Sequence(ZeroOrMore(NT("MethodModifier")), NT("MethodHeader"),
  \* NT("MethodBody")))
  [name |-> <<77, 101, 116, 104, 111, 100, 68, 101, 99, 108, 97, 114, 97, 116,
    105, 111, 110>>,
   body |-> Call("Diagram", <<Call("Sequence", <<Call("ZeroOrMore",
    <<Call("NT", <<StrLit(<<77, 101, 116, 104, 111, 100, 77, 111, 100, 105,
    102, 105, 101, 114>>)>>)>>), Call("NT", <<StrLit(<<77, 101, 116, 104, 111,
    100, 72, 101, 97, 100, 101, 114>>)>>), Call("NT", <<StrLit(<<77, 101, 116,
    104, 111, 100, 66, 111, 100, 121>>)>>)>>)>>)],
  \* lines 659-668: rules.set("MethodModifier", () =>
  \* Diagram(Choice(0, NT("Annotation"), T("public"), T("protected"), T(
  \* "private"), T("abstract"), T("static"), T("final"), T("synchronized"), T(
  \* "native"), T("strictfp")))
  [name |-> <<77, 101, 116, 104, 111, 100, 77, 111, 100, 105, 102, 105, 101,
    114>>,
   body |-> Call("Diagram", <<Call("Choice", <<NumLit(0), Call("NT",
    <<StrLit(<<65, 110, 110, 111, 116, 97, 116, 105, 111, 110>>)>>), Call("T",
    <<StrLit(<<112, 117, 98, 108, 105, 99>>)>>), Call("T", <<StrLit(<<112, 114,
    111, 116, 101, 99, 116, 101, 100>>)>>), Call("T", <<StrLit(<<112, 114, 105,
    118, 97, 116, 101>>)>>), Call("T", <<StrLit(<<97, 98, 115, 116, 114, 97,
    99, 116>>)>>), Call("T", <<StrLit(<<115, 116, 97, 116, 105, 99>>)>>),
    Call("T", <<StrLit(<<102, 105, 110, 97, 108>>)>>), Call("T",
    <<StrLit(<<115, 121, 110, 99, 104, 114, 111, 110, 105, 122, 101, 100>>)>>),
    Call("T", <<StrLit(<<110, 97, 116, 105, 118, 101>>)>>), Call("T",
    <<StrLit(<<115, 116, 114, 105, 99, 116, 102, 112>>)>>)>>)>>)],
  \* lines 670-677: rules.set("MethodHeader", () =>
  \* Diagram(Choice(0, Sequence(NT("Result"), NT("MethodDeclarator"),
  \* Optional(NT("Throws"))), Sequence(NT("TypeParameters"), ZeroOrMore(NT(
  \* "Annotation")), NT("Result"), NT("MethodDeclarator"), Optional(NT(
  \* "Throws")))))
  [name |-> <<77, 101, 116, 104, 111, 100, 72, 101, 97, 100, 101, 114>>,
   body |-> Call("Diagram", <<Call("Choice", <<NumLit(0), Call("Sequence",
    <<Call("NT", <<StrLit(<<82, 101, 115, 117, 108, 116>>)>>), Call("NT",
    <<StrLit(<<77, 101, 116, 104, 111, 100, 68, 101, 99, 108, 97, 114, 97, 116,
    111, 114>>)>>), Call("Optional", <<Call("NT", <<StrLit(<<84, 104, 114, 111,
    119, 115>>)>>)>>)>>), Call("Sequence", <<Call("NT", <<StrLit(<<84, 121,
    112, 101, 80, 97, 114, 97, 109, 101, 116, 101, 114, 115>>)>>),
    Call("ZeroOrMore", <<Call("NT", <<StrLit(<<65, 110, 110, 111, 116, 97, 116,
    105, 111, 110>>)>>)>>), Call("NT", <<StrLit(<<82, 101, 115, 117, 108,
    116>>)>>), Call("NT", <<StrLit(<<77, 101, 116, 104, 111, 100, 68, 101, 99,
    108, 97, 114, 97, 116, 111, 114>>)>>), Call("Optional", <<Call("NT",
    <<StrLit(<<84, 104, 114, 111, 119, 115>>)>>)>>)>>)>>)>>)],
  \* lines 679-681: rules.set("Result", () =>
  \* Diagram(Choice(0, NT("UnannType"), T("void")))
  [name |-> <<82, 101, 115, 117, 108, 116>>,
   body |-> Call("Diagram", <<Call("Choice", <<NumLit(0), Call("NT",
    <<StrLit(<<85, 110, 97, 110, 110, 84, 121, 112, 101>>)>>), Call("T",
    <<StrLit(<<118, 111, 105, 100>>)>>)>>)>>)],
  \* lines 683-694: rules.set("MethodDeclarator", () =>
  \* Diagram(Sequence(NT("Identifier"), T("("), Optional(Sequence(NT(
  \* "ReceiverParameter"), T(","))), Optional(NT("FormalParameterList")), T(
  \* ")"), Optional(NT("Dims"))))
  [name |-> <<77, 101, 116, 104, 111, 100, 68, 101, 99, 108, 97, 114, 97, 116,
    111, 114>>,
   body |-> Call("Diagram", <<Call("Sequence", <<Call("NT", <<StrLit(<<73, 100,
    101, 110, 116, 105, 102, 105, 101, 114>>)>>), Call("T",
    <<StrLit(<<40>>)>>), Call("Optional", <<Call("Sequence", <<Call("NT",
    <<StrLit(<<82, 101, 99, 101, 105, 118, 101, 114, 80, 97, 114, 97, 109, 101,
    116, 101, 114>>)>>), Call("T", <<StrLit(<<44>>)>>)>>)>>), Call("Optional",
    <<Call("NT", <<StrLit(<<70, 111, 114, 109, 97, 108, 80, 97, 114, 97, 109,
    101, 116, 101, 114, 76, 105, 115, 116>>)>>)>>), Call("T",
    <<StrLit(<<41>>)>>), Call("Optional", <<Call("NT", <<StrLit(<<68, 105, 109,
    115>>)>>)>>)>>)>>)],
  \* lines 696-705: rules.set("ReceiverParameter", () =>
  \* Diagram(Sequence(ZeroOrMore(NT("Annotation")), NT("UnannType"), Optional(
  \* Sequence(NT("Identifier"), T("."))), T("this")))
  [name |-> <<82, 101, 99, 101, 105, 118, 101, 114, 80, 97, 114, 97, 109, 101,
    116, 101, 114>>,
   body |-> Call("Diagram", <<Call("Sequence", <<Call("ZeroOrMore",
    <<Call("NT", <<StrLit(<<65, 110, 110, 111, 116, 97, 116, 105, 111,
    110>>)>>)>>), Call("NT", <<StrLit(<<85, 110, 97, 110, 110, 84, 121, 112,
    101>>)>>), Call("Optional", <<Call("Sequence", <<Call("NT", <<StrLit(<<73,
    100, 101, 110, 116, 105, 102, 105, 101, 114>>)>>), Call("T",
    <<StrLit(<<46>>)>>)>>)>>), Call("T", <<StrLit(<<116, 104, 105,
    115>>)>>)>>)>>)],
  \* lines 707-714: rules.set("FormalParameterList", () =>
  \* Diagram(Sequence(NT("FormalParameter"), ZeroOrMore(Sequence(T(","), NT(
  \* "FormalParameter")))))
  [name |-> <<70, 111, 114, 109, 97, 108, 80, 97, 114, 97, 109, 101, 116, 101,
    114, 76, 105, 115, 116>>,
   body |-> Call("Diagram", <<Call("Sequence", <<Call("NT", <<StrLit(<<70, 111,
    114, 109, 97, 108, 80, 97, 114, 97, 109, 101, 116, 101, 114>>)>>),
    Call("ZeroOrMore", <<Call("Sequence", <<Call("T", <<StrLit(<<44>>)>>),
    Call("NT", <<StrLit(<<70, 111, 114, 109, 97, 108, 80, 97, 114, 97, 109,
    101, 116, 101, 114>>)>>)>>)>>)>>)>>)],
  \* lines 716-723: rules.set("FormalParameter", () =>
  \* Diagram(Choice(0, Sequence(ZeroOrMore(NT("VariableModifier")), NT(
  \* "UnannType"), NT("VariableDeclaratorId")), NT("VariableArityParameter")))
  [name |-> <<70, 111, 114, 109, 97, 108, 80, 97, 114, 97, 109, 101, 116, 101,
    114>>,
   body |-> Call("Diagram", <<Call("Choice", <<NumLit(0), Call("Sequence",
    <<Call("ZeroOrMore", <<Call("NT", <<StrLit(<<86, 97, 114, 105, 97, 98, 108,
    101, 77, 111, 100, 105, 102, 105, 101, 114>>)>>)>>), Call("NT",
    <<StrLit(<<85, 110, 97, 110, 110, 84, 121, 112, 101>>)>>), Call("NT",
    <<StrLit(<<86, 97, 114, 105, 97, 98, 108, 101, 68, 101, 99, 108, 97, 114,
    97, 116, 111, 114, 73, 100>>)>>)>>), Call("NT", <<StrLit(<<86, 97, 114,
    105, 97, 98, 108, 101, 65, 114, 105, 116, 121, 80, 97, 114, 97, 109, 101,
    116, 101, 114>>)>>)>>)>>)],
  \* lines 725-735: rules.set("VariableArityParameter", () =>
  \* Diagram(Sequence(ZeroOrMore(NT("VariableModifier")), NT("UnannType"),
  \* ZeroOrMore(NT("Annotation")), T("..."), NT("Identifier")))
  [name |-> <<86, 97, 114, 105, 97, 98, 108, 101, 65, 114, 105, 116, 121, 80,
    97, 114, 97, 109, 101, 116, 101, 114>>,
   body |-> Call("Diagram", <<Call("Sequence", <<Call("ZeroOrMore",
    <<Call("NT", <<StrLit(<<86, 97, 114, 105, 97, 98, 108, 101, 77, 111, 100,
    105, 102, 105, 101, 114>>)>>)>>), Call("NT", <<StrLit(<<85, 110, 97, 110,
    110, 84, 121, 112, 101>>)>>), Call("ZeroOrMore", <<Call("NT",
    <<StrLit(<<65, 110, 110, 111, 116, 97, 116, 105, 111, 110>>)>>)>>),
    Call("T", <<StrLit(<<46, 46, 46>>)>>), Call("NT", <<StrLit(<<73, 100, 101,
    110, 116, 105, 102, 105, 101, 114>>)>>)>>)>>)],
  \* lines 737-739: rules.set("VariableModifier", () =>
  \* Diagram(Choice(0, NT("Annotation"), T("final")))
  [name |-> <<86, 97, 114, 105, 97, 98, 108, 101, 77, 111, 100, 105, 102, 105,
    101, 114>>,
   body |-> Call("Diagram", <<Call("Choice", <<NumLit(0), Call("NT",
    <<StrLit(<<65, 110, 110, 111, 116, 97, 116, 105, 111, 110>>)>>), Call("T",
    <<StrLit(<<102, 105, 110, 97, 108>>)>>)>>)>>)],
  \* lines 741-743: rules.set("Throws", () =>
  \* Diagram(Sequence(T("throws"), NT("ExceptionTypeList")))
  [name |-> <<84, 104, 114, 111, 119, 115>>,
   body |-> Call("Diagram", <<Call("Sequence", <<Call("T", <<StrLit(<<116, 104,
    114, 111, 119, 115>>)>>), Call("NT", <<StrLit(<<69, 120, 99, 101, 112, 116,
    105, 111, 110, 84, 121, 112, 101, 76, 105, 115, 116>>)>>)>>)>>)],
  \* lines 745-752: rules.set("ExceptionTypeList", () =>
  \* Diagram(Sequence(NT("ExceptionType"), ZeroOrMore(Sequence(T(","), NT(
  \* "ExceptionType")))))
  [name |-> <<69, 120, 99, 101, 112, 116, 105, 111, 110, 84, 121, 112, 101, 76,
    105, 115, 116>>,
   body |-> Call("Diagram", <<Call("Sequence", <<Call("NT", <<StrLit(<<69, 120,
    99, 101, 112, 116, 105, 111, 110, 84, 121, 112, 101>>)>>),
    Call("ZeroOrMore", <<Call("Sequence", <<Call("T", <<StrLit(<<44>>)>>),
    Call("NT", <<StrLit(<<69, 120, 99, 101, 112, 116, 105, 111, 110, 84, 121,
    112, 101>>)>>)>>)>>)>>)>>)],
  \* lines 754-756: rules.set("ExceptionType", () =>
  \* Diagram(Choice(0, NT("ClassType"), NT("TypeVariable")))
  [name |-> <<69, 120, 99, 101, 112, 116, 105, 111, 110, 84, 121, 112, 101>>,
   body |-> Call("Diagram", <<Call("Choice", <<NumLit(0), Call("NT",
    <<StrLit(<<67, 108, 97, 115, 115, 84, 121, 112, 101>>)>>), Call("NT",
    <<StrLit(<<84, 121, 112, 101, 86, 97, 114, 105, 97, 98, 108,
    101>>)>>)>>)>>)],
  \* lines 758-760: rules.set("MethodBody", () =>
  \* Diagram(Choice(0, NT("Block"), T(";")))
  [name |-> <<77, 101, 116, 104, 111, 100, 66, 111, 100, 121>>,
   body |-> Call("Diagram", <<Call("Choice", <<NumLit(0), Call("NT",
    <<StrLit(<<66, 108, 111, 99, 107>>)>>), Call("T",
    <<StrLit(<<59>>)>>)>>)>>)],
  \* lines 762-764: rules.set("InstanceInitializer", () =>
  \* Diagram(NT("Block"))
  [name |-> <<73, 110, 115, 116, 97, 110, 99, 101, 73, 110, 105, 116, 105, 97,
    108, 105, 122, 101, 114>>,
   body |-> Call("Diagram", <<Call("NT", <<StrLit(<<66, 108, 111, 99,
    107>>)>>)>>)],
  \* lines 766-768: rules.set("StaticInitializer", () =>
  \* Diagram(Sequence(T("static"), NT("Block")))
  [name |-> <<83, 116, 97, 116, 105, 99, 73, 110, 105, 116, 105, 97, 108, 105,
    122, 101, 114>>,
   body |-> Call("Diagram", <<Call("Sequence", <<Call("T", <<StrLit(<<115, 116,
    97, 116, 105, 99>>)>>), Call("NT", <<StrLit(<<66, 108, 111, 99,
    107>>)>>)>>)>>)],
  \* lines 770-779: rules.set("ConstructorDeclaration", () =>
  \* Diagram(Sequence(ZeroOrMore(NT("ConstructorModifier")), NT(
  \* "ConstructorDeclarator"), Optional(NT("Throws")), NT("ConstructorBody")))
  [name |-> <<67, 111, 110, 115, 116, 114, 117, 99, 116, 111, 114, 68, 101, 99,
    108, 97, 114, 97, 116, 105, 111, 110>>,
   body |-> Call("Diagram", <<Call("Sequence", <<Call("ZeroOrMore",
    <<Call("NT", <<StrLit(<<67, 111, 110, 115, 116, 114, 117, 99, 116, 111,
    114, 77, 111, 100, 105, 102, 105, 101, 114>>)>>)>>), Call("NT",
    <<StrLit(<<67, 111, 110, 115, 116, 114, 117, 99, 116, 111, 114, 68, 101,
    99, 108, 97, 114, 97, 116, 111, 114>>)>>), Call("Optional", <<Call("NT",
    <<StrLit(<<84, 104, 114, 111, 119, 115>>)>>)>>), Call("NT", <<StrLit(<<67,
    111, 110, 115, 116, 114, 117, 99, 116, 111, 114, 66, 111, 100,
    121>>)>>)>>)>>)],
  \* lines 781-788: rules.set("ConstructorModifier", () =>
  \* Diagram(Choice(0, NT("Annotation"), T("public"), T("protected"), T(
  \* "private")))
  [name |-> <<67, 111, 110, 115, 116, 114, 117, 99, 116, 111, 114, 77, 111,
    100, 105, 102, 105, 101, 114>>,
   body |-> Call("Diagram", <<Call("Choice", <<NumLit(0), Call("NT",
    <<StrLit(<<65, 110, 110, 111, 116, 97, 116, 105, 111, 110>>)>>), Call("T",
    <<StrLit(<<112, 117, 98, 108, 105, 99>>)>>), Call("T", <<StrLit(<<112, 114,
    111, 116, 101, 99, 116, 101, 100>>)>>), Call("T", <<StrLit(<<112, 114, 105,
    118, 97, 116, 101>>)>>)>>)>>)],
  \* lines 790-801: rules.set("ConstructorDeclarator", () =>
  \* Diagram(Sequence(Optional(NT("TypeParameters")), NT("SimpleTypeName"), T(
  \* "("), Optional(Sequence(NT("ReceiverParameter"), T(","))), Optional(NT(
  \* "FormalParameterList")), T(")")))
  [name |-> <<67, 111, 110, 115, 116, 114, 117, 99, 116, 111, 114, 68, 101, 99,
    108, 97, 114, 97, 116, 111, 114>>,
   body |-> Call("Diagram", <<Call("Sequence", <<Call("Optional", <<Call("NT",
    <<StrLit(<<84, 121, 112, 101, 80, 97, 114, 97, 109, 101, 116, 101, 114,
    115>>)>>)>>), Call("NT", <<StrLit(<<83, 105, 109, 112, 108, 101, 84, 121,
    112, 101, 78, 97, 109, 101>>)>>), Call("T", <<StrLit(<<40>>)>>),
    Call("Optional", <<Call("Sequence", <<Call("NT", <<StrLit(<<82, 101, 99,
    101, 105, 118, 101, 114, 80, 97, 114, 97, 109, 101, 116, 101, 114>>)>>),
    Call("T", <<StrLit(<<44>>)>>)>>)>>), Call("Optional", <<Call("NT",
    <<StrLit(<<70, 111, 114, 109, 97, 108, 80, 97, 114, 97, 109, 101, 116, 101,
    114, 76, 105, 115, 116>>)>>)>>), Call("T", <<StrLit(<<41>>)>>)>>)>>)],
  \* lines 803-805: rules.set("SimpleTypeName", () =>
  \* Diagram(NT("TypeIdentifier"))
  [name |-> <<83, 105, 109, 112, 108, 101, 84, 121, 112, 101, 78, 97, 109,
    101>>,
   body |-> Call("Diagram", <<Call("NT", <<StrLit(<<84, 121, 112, 101, 73, 100,
    101, 110, 116, 105, 102, 105, 101, 114>>)>>)>>)],
  \* lines 807-814: rules.set("ConstructorBody", () =>
  \* Diagram(Choice(0, Sequence(T("{"), Optional(NT("BlockStatements")), NT(
  \* "ConstructorInvocation"), Optional(NT("BlockStatements")), T("}")),
  \* Sequence(T("{"), Optional(NT("BlockStatements")), T("}"))))
  [name |-> <<67, 111, 110, 115, 116, 114, 117, 99, 116, 111, 114, 66, 111,
    100, 121>>,
   body |-> Call("Diagram", <<Call("Choice", <<NumLit(0), Call("Sequence",
    <<Call("T", <<StrLit(<<123>>)>>), Call("Optional", <<Call("NT",
    <<StrLit(<<66, 108, 111, 99, 107, 83, 116, 97, 116, 101, 109, 101, 110,
    116, 115>>)>>)>>), Call("NT", <<StrLit(<<67, 111, 110, 115, 116, 114, 117,
    99, 116, 111, 114, 73, 110, 118, 111, 99, 97, 116, 105, 111, 110>>)>>),
    Call("Optional", <<Call("NT", <<StrLit(<<66, 108, 111, 99, 107, 83, 116,
    97, 116, 101, 109, 101, 110, 116, 115>>)>>)>>), Call("T",
    <<StrLit(<<125>>)>>)>>), Call("Sequence", <<Call("T", <<StrLit(<<123>>)>>),
    Call("Optional", <<Call("NT", <<StrLit(<<66, 108, 111, 99, 107, 83, 116,
    97, 116, 101, 109, 101, 110, 116, 115>>)>>)>>), Call("T",
    <<StrLit(<<125>>)>>)>>)>>)>>)],
  \* lines 816-825: rules.set("ConstructorInvocation", () =>
  \* Diagram(Choice(0, Sequence(Optional(NT("TypeArguments")), T("this"), T(
  \* "("), Optional(NT("ArgumentList")), T(")"), T(";")), Sequence(Optional(
  \* NT("TypeArguments")), T("super"), T("("), Optional(NT("ArgumentList")),
  \* T(")"), T(";")), Sequence(NT("ExpressionName"), T("."), Optional(NT(
  \* "TypeArguments")), T("super"), T("("), Optional(NT("ArgumentList")), T(
  \* ")"), T(";")), Sequence(NT("Primary"), T("."), Optional(NT(
  \* "TypeArguments")), T("super"), T("("), Optional(NT("ArgumentList")), T(
  \* ")"), T(";"))))
  [name |-> <<67, 111, 110, 115, 116, 114, 117, 99, 116, 111, 114, 73, 110,
    118, 111, 99, 97, 116, 105, 111, 110>>,
   body |-> Call("Diagram", <<Call("Choice", <<NumLit(0), Call("Sequence",
    <<Call("Optional", <<Call("NT", <<StrLit(<<84, 121, 112, 101, 65, 114, 103,
    117, 109, 101, 110, 116, 115>>)>>)>>), Call("T", <<StrLit(<<116, 104, 105,
    115>>)>>), Call("T", <<StrLit(<<40>>)>>), Call("Optional", <<Call("NT",
    <<StrLit(<<65, 114, 103, 117, 109, 101, 110, 116, 76, 105, 115,
    116>>)>>)>>), Call("T", <<StrLit(<<41>>)>>), Call("T",
    <<StrLit(<<59>>)>>)>>), Call("Sequence", <<Call("Optional", <<Call("NT",
    <<StrLit(<<84, 121, 112, 101, 65, 114, 103, 117, 109, 101, 110, 116,
    115>>)>>)>>), Call("T", <<StrLit(<<115, 117, 112, 101, 114>>)>>), Call("T",
    <<StrLit(<<40>>)>>), Call("Optional", <<Call("NT", <<StrLit(<<65, 114, 103,
    117, 109, 101, 110, 116, 76, 105, 115, 116>>)>>)>>), Call("T",
    <<StrLit(<<41>>)>>), Call("T", <<StrLit(<<59>>)>>)>>), Call("Sequence",
    <<Call("NT", <<StrLit(<<69, 120, 112, 114, 101, 115, 115, 105, 111, 110,
    78, 97, 109, 101>>)>>), Call("T", <<StrLit(<<46>>)>>), Call("Optional",
    <<Call("NT", <<StrLit(<<84, 121, 112, 101, 65, 114, 103, 117, 109, 101,
    110, 116, 115>>)>>)>>), Call("T", <<StrLit(<<115, 117, 112, 101, 114>>)>>),
    Call("T", <<StrLit(<<40>>)>>), Call("Optional", <<Call("NT", <<StrLit(<<65,
    114, 103, 117, 109, 101, 110, 116, 76, 105, 115, 116>>)>>)>>), Call("T",
    <<StrLit(<<41>>)>>), Call("T", <<StrLit(<<59>>)>>)>>), Call("Sequence",
    <<Call("NT", <<StrLit(<<80, 114, 105, 109, 97, 114, 121>>)>>), Call("T",
    <<StrLit(<<46>>)>>), Call("Optional", <<Call("NT", <<StrLit(<<84, 121, 112,
    101, 65, 114, 103, 117, 109, 101, 110, 116, 115>>)>>)>>), Call("T",
    <<StrLit(<<115, 117, 112, 101, 114>>)>>), Call("T", <<StrLit(<<40>>)>>),
    Call("Optional", <<Call("NT", <<StrLit(<<65, 114, 103, 117, 109, 101, 110,
    116, 76, 105, 115, 116>>)>>)>>), Call("T", <<StrLit(<<41>>)>>), Call("T",
    <<StrLit(<<59>>)>>)>>)>>)>>)],
  \* lines 827-837: rules.set("EnumDeclaration", () =>
  \* Diagram(Sequence(ZeroOrMore(NT("ClassModifier")), T("enum"), NT(
  \* "TypeIdentifier"), Optional(NT("ClassImplements")), NT("EnumBody")))
  [name |-> <<69, 110, 117, 109, 68, 101, 99, 108, 97, 114, 97, 116, 105, 111,
    110>>,
   body |-> Call("Diagram", <<Call("Sequence", <<Call("ZeroOrMore",
    <<Call("NT", <<StrLit(<<67, 108, 97, 115, 115, 77, 111, 100, 105, 102, 105,
    101, 114>>)>>)>>), Call("T", <<StrLit(<<101, 110, 117, 109>>)>>),
    Call("NT", <<StrLit(<<84, 121, 112, 101, 73, 100, 101, 110, 116, 105, 102,
    105, 101, 114>>)>>), Call("Optional", <<Call("NT", <<StrLit(<<67, 108, 97,
    115, 115, 73, 109, 112, 108, 101, 109, 101, 110, 116, 115>>)>>)>>),
    Call("NT", <<StrLit(<<69, 110, 117, 109, 66, 111, 100, 121>>)>>)>>)>>)],
  \* lines 839-849: rules.set("EnumBody", () =>
  \* Diagram(Sequence(T("{"), Optional(NT("EnumConstantList")), Optional(T(","
  \* )), Optional(NT("EnumBodyDeclarations")), T("}")))
  [name |-> <<69, 110, 117, 109, 66, 111, 100, 121>>,
   body |-> Call("Diagram", <<Call("Sequence", <<Call("T",
    <<StrLit(<<123>>)>>), Call("Optional", <<Call("NT", <<StrLit(<<69, 110,
    117, 109, 67, 111, 110, 115, 116, 97, 110, 116, 76, 105, 115, 116>>)>>)>>),
    Call("Optional", <<Call("T", <<StrLit(<<44>>)>>)>>), Call("Optional",
    <<Call("NT", <<StrLit(<<69, 110, 117, 109, 66, 111, 100, 121, 68, 101, 99,
    108, 97, 114, 97, 116, 105, 111, 110, 115>>)>>)>>), Call("T",
    <<StrLit(<<125>>)>>)>>)>>)],
  \* lines 851-858: rules.set("EnumConstantList", () =>
  \* Diagram(Sequence(NT("EnumConstant"), ZeroOrMore(Sequence(T(","), NT(
  \* "EnumConstant")))))
  [name |-> <<69, 110, 117, 109, 67, 111, 110, 115, 116, 97, 110, 116, 76, 105,
    115, 116>>,
   body |-> Call("Diagram", <<Call("Sequence", <<Call("NT", <<StrLit(<<69, 110,
    117, 109, 67, 111, 110, 115, 116, 97, 110, 116>>)>>), Call("ZeroOrMore",
    <<Call("Sequence", <<Call("T", <<StrLit(<<44>>)>>), Call("NT",
    <<StrLit(<<69, 110, 117, 109, 67, 111, 110, 115, 116, 97, 110,
    116>>)>>)>>)>>)>>)>>)],
  \* lines 860-869: rules.set("EnumConstant", () =>
  \* Diagram(Sequence(ZeroOrMore(NT("EnumConstantModifier")), NT("Identifier"
  \* ), Optional(Sequence(T("("), Optional(NT("ArgumentList")), T(")"))),
  \* Optional(NT("ClassBody"))))
  [name |-> <<69, 110, 117, 109, 67, 111, 110, 115, 116, 97, 110, 116>>,
   body |-> Call("Diagram", <<Call("Sequence", <<Call("ZeroOrMore",
    <<Call("NT", <<StrLit(<<69, 110, 117, 109, 67, 111, 110, 115, 116, 97, 110,
    116, 77, 111, 100, 105, 102, 105, 101, 114>>)>>)>>), Call("NT",
    <<StrLit(<<73, 100, 101, 110, 116, 105, 102, 105, 101, 114>>)>>),
    Call("Optional", <<Call("Sequence", <<Call("T", <<StrLit(<<40>>)>>),
    Call("Optional", <<Call("NT", <<StrLit(<<65, 114, 103, 117, 109, 101, 110,
    116, 76, 105, 115, 116>>)>>)>>), Call("T", <<StrLit(<<41>>)>>)>>)>>),
    Call("Optional", <<Call("NT", <<StrLit(<<67, 108, 97, 115, 115, 66, 111,
    100, 121>>)>>)>>)>>)>>)],
  \* lines 871-873: rules.set("EnumConstantModifier", () =>
  \* Diagram(NT("Annotation"))
  [name |-> <<69, 110, 117, 109, 67, 111, 110, 115, 116, 97, 110, 116, 77, 111,
    100, 105, 102, 105, 101, 114>>,
   body |-> Call("Diagram", <<Call("NT", <<StrLit(<<65, 110, 110, 111, 116, 97,
    116, 105, 111, 110>>)>>)>>)],
  \* lines 875-877: rules.set("EnumBodyDeclarations", () =>
  \* Diagram(Sequence(T(";"), ZeroOrMore(NT("ClassBodyDeclaration"))))
  [name |-> <<69, 110, 117, 109, 66, 111, 100, 121, 68, 101, 99, 108, 97, 114,
    97, 116, 105, 111, 110, 115>>,
   body |-> Call("Diagram", <<Call("Sequence", <<Call("T", <<StrLit(<<59>>)>>),
    Call("ZeroOrMore", <<Call("NT", <<StrLit(<<67, 108, 97, 115, 115, 66, 111,
    100, 121, 68, 101, 99, 108, 97, 114, 97, 116, 105, 111,
    110>>)>>)>>)>>)>>)],
  \* lines 879-891: rules.set("RecordDeclaration", () =>
  \* Diagram(Sequence(ZeroOrMore(NT("ClassModifier")), T("record"), NT(
  \* "TypeIdentifier"), Optional(NT("TypeParameters")), NT("RecordHeader"),
  \* Optional(NT("ClassImplements")), NT("RecordBody")))
  [name |-> <<82, 101, 99, 111, 114, 100, 68, 101, 99, 108, 97, 114, 97, 116,
    105, 111, 110>>,
   body |-> Call("Diagram", <<Call("Sequence", <<Call("ZeroOrMore",
    <<Call("NT", <<StrLit(<<67, 108, 97, 115, 115, 77, 111, 100, 105, 102, 105,
    101, 114>>)>>)>>), Call("T", <<StrLit(<<114, 101, 99, 111, 114, 100>>)>>),
    Call("NT", <<StrLit(<<84, 121, 112, 101, 73, 100, 101, 110, 116, 105, 102,
    105, 101, 114>>)>>), Call("Optional", <<Call("NT", <<StrLit(<<84, 121, 112,
    101, 80, 97, 114, 97, 109, 101, 116, 101, 114, 115>>)>>)>>), Call("NT",
    <<StrLit(<<82, 101, 99, 111, 114, 100, 72, 101, 97, 100, 101, 114>>)>>),
    Call("Optional", <<Call("NT", <<StrLit(<<67, 108, 97, 115, 115, 73, 109,
    112, 108, 101, 109, 101, 110, 116, 115>>)>>)>>), Call("NT", <<StrLit(<<82,
    101, 99, 111, 114, 100, 66, 111, 100, 121>>)>>)>>)>>)],
  \* lines 893-895: rules.set("RecordHeader", () =>
  \* Diagram(Sequence(T("("), Optional(NT("RecordComponentList")), T(")")))
  [name |-> <<82, 101, 99, 111, 114, 100, 72, 101, 97, 100, 101, 114>>,
   body |-> Call("Diagram", <<Call("Sequence", <<Call("T", <<StrLit(<<40>>)>>),
    Call("Optional", <<Call("NT", <<StrLit(<<82, 101, 99, 111, 114, 100, 67,
    111, 109, 112, 111, 110, 101, 110, 116, 76, 105, 115, 116>>)>>)>>),
    Call("T", <<StrLit(<<41>>)>>)>>)>>)],
  \* lines 897-904: rules.set("RecordComponentList", () =>
  \* Diagram(Sequence(NT("RecordComponent"), ZeroOrMore(Sequence(T(","), NT(
  \* "RecordComponent")))))
  [name |-> <<82, 101, 99, 111, 114, 100, 67, 111, 109, 112, 111, 110, 101,
    110, 116, 76, 105, 115, 116>>,
   body |-> Call("Diagram", <<Call("Sequence", <<Call("NT", <<StrLit(<<82, 101,
    99, 111, 114, 100, 67, 111, 109, 112, 111, 110, 101, 110, 116>>)>>),
    Call("ZeroOrMore", <<Call("Sequence", <<Call("T", <<StrLit(<<44>>)>>),
    Call("NT", <<StrLit(<<82, 101, 99, 111, 114, 100, 67, 111, 109, 112, 111,
    110, 101, 110, 116>>)>>)>>)>>)>>)>>)],
  \* lines 906-913: rules.set("RecordComponent", () =>
  \* Diagram(Choice(0, Sequence(ZeroOrMore(NT("RecordComponentModifier")), NT(
  \* "UnannType"), NT("Identifier")), NT("VariableArityRecordComponent")))
  [name |-> <<82, 101, 99, 111, 114, 100, 67, 111, 109, 112, 111, 110, 101,
    110, 116>>,
   body |-> Call("Diagram", <<Call("Choice", <<NumLit(0), Call("Sequence",
    <<Call("ZeroOrMore", <<Call("NT", <<StrLit(<<82, 101, 99, 111, 114, 100,
    67, 111, 109, 112, 111, 110, 101, 110, 116, 77, 111, 100, 105, 102, 105,
    101, 114>>)>>)>>), Call("NT", <<StrLit(<<85, 110, 97, 110, 110, 84, 121,
    112, 101>>)>>), Call("NT", <<StrLit(<<73, 100, 101, 110, 116, 105, 102,
    105, 101, 114>>)>>)>>), Call("NT", <<StrLit(<<86, 97, 114, 105, 97, 98,
    108, 101, 65, 114, 105, 116, 121, 82, 101, 99, 111, 114, 100, 67, 111, 109,
    112, 111, 110, 101, 110, 116>>)>>)>>)>>)],
  \* lines 915-925: rules.set("VariableArityRecordComponent", () =>
  \* Diagram(Sequence(ZeroOrMore(NT("RecordComponentModifier")), NT(
  \* "UnannType"), ZeroOrMore(NT("Annotation")), T("..."), NT("Identifier")))
  [name |-> <<86, 97, 114, 105, 97, 98, 108, 101, 65, 114, 105, 116, 121, 82,
    101, 99, 111, 114, 100, 67, 111, 109, 112, 111, 110, 101, 110, 116>>,
   body |-> Call("Diagram", <<Call("Sequence", <<Call("ZeroOrMore",
    <<Call("NT", <<StrLit(<<82, 101, 99, 111, 114, 100, 67, 111, 109, 112, 111,
    110, 101, 110, 116, 77, 111, 100, 105, 102, 105, 101, 114>>)>>)>>),
    Call("NT", <<StrLit(<<85, 110, 97, 110, 110, 84, 121, 112, 101>>)>>),
    Call("ZeroOrMore", <<Call("NT", <<StrLit(<<65, 110, 110, 111, 116, 97, 116,
    105, 111, 110>>)>>)>>), Call("T", <<StrLit(<<46, 46, 46>>)>>), Call("NT",
    <<StrLit(<<73, 100, 101, 110, 116, 105, 102, 105, 101, 114>>)>>)>>)>>)],
  \* lines 927-929: rules.set("RecordComponentModifier", () =>
  \* Diagram(NT("Annotation"))
  [name |-> <<82, 101, 99, 111, 114, 100, 67, 111, 109, 112, 111, 110, 101,
    110, 116, 77, 111, 100, 105, 102, 105, 101, 114>>,
   body |-> Call("Diagram", <<Call("NT", <<StrLit(<<65, 110, 110, 111, 116, 97,
    116, 105, 111, 110>>)>>)>>)],
  \* lines 931-933: rules.set("RecordBody", () =>
  \* Diagram(Sequence(T("{"), ZeroOrMore(NT("RecordBodyDeclaration")), T("}"))
  \* )
  [name |-> <<82, 101, 99, 111, 114, 100, 66, 111, 100, 121>>,
   body |-> Call("Diagram", <<Call("Sequence", <<Call("T",
    <<StrLit(<<123>>)>>), Call("ZeroOrMore", <<Call("NT", <<StrLit(<<82, 101,
    99, 111, 114, 100, 66, 111, 100, 121, 68, 101, 99, 108, 97, 114, 97, 116,
    105, 111, 110>>)>>)>>), Call("T", <<StrLit(<<125>>)>>)>>)>>)],
  \* lines 935-942: rules.set("RecordBodyDeclaration", () =>
  \* Diagram(Choice(0, NT("ClassBodyDeclaration"), NT(
  \* "CompactConstructorDeclaration")))
  [name |-> <<82, 101, 99, 111, 114, 100, 66, 111, 100, 121, 68, 101, 99, 108,
    97, 114, 97, 116, 105, 111, 110>>,
   body |-> Call("Diagram", <<Call("Choice", <<NumLit(0), Call("NT",
    <<StrLit(<<67, 108, 97, 115, 115, 66, 111, 100, 121, 68, 101, 99, 108, 97,
    114, 97, 116, 105, 111, 110>>)>>), Call("NT", <<StrLit(<<67, 111, 109, 112,
    97, 99, 116, 67, 111, 110, 115, 116, 114, 117, 99, 116, 111, 114, 68, 101,
    99, 108, 97, 114, 97, 116, 105, 111, 110>>)>>)>>)>>)],
  \* lines 944-952: rules.set("CompactConstructorDeclaration", () =>
  \* Diagram(Sequence(ZeroOrMore(NT("ConstructorModifier")), NT(
  \* "SimpleTypeName"), NT("ConstructorBody")))
  [name |-> <<67, 111, 109, 112, 97, 99, 116, 67, 111, 110, 115, 116, 114, 117,
    99, 116, 111, 114, 68, 101, 99, 108, 97, 114, 97, 116, 105, 111, 110>>,
   body |-> Call("Diagram", <<Call("Sequence", <<Call("ZeroOrMore",
    <<Call("NT", <<StrLit(<<67, 111, 110, 115, 116, 114, 117, 99, 116, 111,
    114, 77, 111, 100, 105, 102, 105, 101, 114>>)>>)>>), Call("NT",
    <<StrLit(<<83, 105, 109, 112, 108, 101, 84, 121, 112, 101, 78, 97, 109,
    101>>)>>), Call("NT", <<StrLit(<<67, 111, 110, 115, 116, 114, 117, 99, 116,
    111, 114, 66, 111, 100, 121>>)>>)>>)>>)],
  \* lines 956-963: rules.set("InterfaceDeclaration", () =>
  \* Diagram(Choice(0, NT("NormalInterfaceDeclaration"), NT(
  \* "AnnotationInterfaceDeclaration")))
  [name |-> <<73, 110, 116, 101, 114, 102, 97, 99, 101, 68, 101, 99, 108, 97,
    114, 97, 116, 105, 111, 110>>,
   body |-> Call("Diagram", <<Call("Choice", <<NumLit(0), Call("NT",
    <<StrLit(<<78, 111, 114, 109, 97, 108, 73, 110, 116, 101, 114, 102, 97, 99,
    101, 68, 101, 99, 108, 97, 114, 97, 116, 105, 111, 110>>)>>), Call("NT",
    <<StrLit(<<65, 110, 110, 111, 116, 97, 116, 105, 111, 110, 73, 110, 116,
    101, 114, 102, 97, 99, 101, 68, 101, 99, 108, 97, 114, 97, 116, 105, 111,
    110>>)>>)>>)>>)],
  \* lines 965-977: rules.set("NormalInterfaceDeclaration", () =>
  \* Diagram(Sequence(ZeroOrMore(NT("InterfaceModifier")), T("interface"), NT(
  \* "TypeIdentifier"), Optional(NT("TypeParameters")), Optional(NT(
  \* "InterfaceExtends")), Optional(NT("InterfacePermits")), NT(
  \* "InterfaceBody")))
  [name |-> <<78, 111, 114, 109, 97, 108, 73, 110, 116, 101, 114, 102, 97, 99,
    101, 68, 101, 99, 108, 97, 114, 97, 116, 105, 111, 110>>,
   body |-> Call("Diagram", <<Call("Sequence", <<Call("ZeroOrMore",
    <<Call("NT", <<StrLit(<<73, 110, 116, 101, 114, 102, 97, 99, 101, 77, 111,
    100, 105, 102, 105, 101, 114>>)>>)>>), Call("T", <<StrLit(<<105, 110, 116,
    101, 114, 102, 97, 99, 101>>)>>), Call("NT", <<StrLit(<<84, 121, 112, 101,
    73, 100, 101, 110, 116, 105, 102, 105, 101, 114>>)>>), Call("Optional",
    <<Call("NT", <<StrLit(<<84, 121, 112, 101, 80, 97, 114, 97, 109, 101, 116,
    101, 114, 115>>)>>)>>), Call("Optional", <<Call("NT", <<StrLit(<<73, 110,
    116, 101, 114, 102, 97, 99, 101, 69, 120, 116, 101, 110, 100, 115>>)>>)>>),
    Call("Optional", <<Call("NT", <<StrLit(<<73, 110, 116, 101, 114, 102, 97,
    99, 101, 80, 101, 114, 109, 105, 116, 115>>)>>)>>), Call("NT",
    <<StrLit(<<73, 110, 116, 101, 114, 102, 97, 99, 101, 66, 111, 100,
    121>>)>>)>>)>>)],
  \* lines 979-987: rules.set("InterfaceModifier", () =>
  \* Diagram(Choice(0, NT("Annotation"), T("public"), T("protected"), T(
  \* "private"), T("abstract"), T("static"), T("sealed"), T("non-sealed"), T(
  \* "strictfp")))
  [name |-> <<73, 110, 116, 101, 114, 102, 97, 99, 101, 77, 111, 100, 105, 102,
    105, 101, 114>>,
   body |-> Call("Diagram", <<Call("Choice", <<NumLit(0), Call("NT",
    <<StrLit(<<65, 110, 110, 111, 116, 97, 116, 105, 111, 110>>)>>), Call("T",
    <<StrLit(<<112, 117, 98, 108, 105, 99>>)>>), Call("T", <<StrLit(<<112, 114,
    111, 116, 101, 99, 116, 101, 100>>)>>), Call("T", <<StrLit(<<112, 114, 105,
    118, 97, 116, 101>>)>>), Call("T", <<StrLit(<<97, 98, 115, 116, 114, 97,
    99, 116>>)>>), Call("T", <<StrLit(<<115, 116, 97, 116, 105, 99>>)>>),
    Call("T", <<StrLit(<<115, 101, 97, 108, 101, 100>>)>>), Call("T",
    <<StrLit(<<110, 111, 110, 45, 115, 101, 97, 108, 101, 100>>)>>), Call("T",
    <<StrLit(<<115, 116, 114, 105, 99, 116, 102, 112>>)>>)>>)>>)],
  \* lines 989-991: rules.set("InterfaceExtends", () =>
  \* Diagram(Sequence(T("extends"), NT("InterfaceTypeList")))
  [name |-> <<73, 110, 116, 101, 114, 102, 97, 99, 101, 69, 120, 116, 101, 110,
    100, 115>>,
   body |-> Call("Diagram", <<Call("Sequence", <<Call("T", <<StrLit(<<101, 120,
    116, 101, 110, 100, 115>>)>>), Call("NT", <<StrLit(<<73, 110, 116, 101,
    114, 102, 97, 99, 101, 84, 121, 112, 101, 76, 105, 115, 116>>)>>)>>)>>)],
  \* lines 993-1001: rules.set("InterfacePermits", () =>
  \* Diagram(Sequence(T("permits"), NT("TypeName"), ZeroOrMore(Sequence(T(","
  \* ), NT("TypeName")))))
  [name |-> <<73, 110, 116, 101, 114, 102, 97, 99, 101, 80, 101, 114, 109, 105,
    116, 115>>,
   body |-> Call("Diagram", <<Call("Sequence", <<Call("T", <<StrLit(<<112, 101,
    114, 109, 105, 116, 115>>)>>), Call("NT", <<StrLit(<<84, 121, 112, 101, 78,
    97, 109, 101>>)>>), Call("ZeroOrMore", <<Call("Sequence", <<Call("T",
    <<StrLit(<<44>>)>>), Call("NT", <<StrLit(<<84, 121, 112, 101, 78, 97, 109,
    101>>)>>)>>)>>)>>)>>)],
  \* lines 1003-1005: rules.set("InterfaceBody", () =>
  \* Diagram(Sequence(T("{"), ZeroOrMore(NT("InterfaceMemberDeclaration")), T(
  \* "}")))
  [name |-> <<73, 110, 116, 101, 114, 102, 97, 99, 101, 66, 111, 100, 121>>,
   body |-> Call("Diagram", <<Call("Sequence", <<Call("T",
    <<StrLit(<<123>>)>>), Call("ZeroOrMore", <<Call("NT", <<StrLit(<<73, 110,
    116, 101, 114, 102, 97, 99, 101, 77, 101, 109, 98, 101, 114, 68, 101, 99,
    108, 97, 114, 97, 116, 105, 111, 110>>)>>)>>), Call("T",
    <<StrLit(<<125>>)>>)>>)>>)],
  \* lines 1007-1017: rules.set("InterfaceMemberDeclaration", () =>
  \* Diagram(Choice(0, NT("ConstantDeclaration"), NT(
  \* "InterfaceMethodDeclaration"), NT("ClassDeclaration"), NT(
  \* "InterfaceDeclaration"), T(";")))
  [name |-> <<73, 110, 116, 101, 114, 102, 97, 99, 101, 77, 101, 109, 98, 101,
    114, 68, 101, 99, 108, 97, 114, 97, 116, 105, 111, 110>>,
   body |-> Call("Diagram", <<Call("Choice", <<NumLit(0), Call("NT",
    <<StrLit(<<67, 111, 110, 115, 116, 97, 110, 116, 68, 101, 99, 108, 97, 114,
    97, 116, 105, 111, 110>>)>>), Call("NT", <<StrLit(<<73, 110, 116, 101, 114,
    102, 97, 99, 101, 77, 101, 116, 104, 111, 100, 68, 101, 99, 108, 97, 114,
    97, 116, 105, 111, 110>>)>>), Call("NT", <<StrLit(<<67, 108, 97, 115, 115,
    68, 101, 99, 108, 97, 114, 97, 116, 105, 111, 110>>)>>), Call("NT",
    <<StrLit(<<73, 110, 116, 101, 114, 102, 97, 99, 101, 68, 101, 99, 108, 97,
    114, 97, 116, 105, 111, 110>>)>>), Call("T", <<StrLit(<<59>>)>>)>>)>>)],
  \* lines 1019-1028: rules.set("ConstantDeclaration", () =>
  \* Diagram(Sequence(ZeroOrMore(NT("ConstantModifier")), NT("UnannType"), NT(
  \* "VariableDeclaratorList"), T(";")))
  [name |-> <<67, 111, 110, 115, 116, 97, 110, 116, 68, 101, 99, 108, 97, 114,
    97, 116, 105, 111, 110>>,
   body |-> Call("Diagram", <<Call("Sequence", <<Call("ZeroOrMore",
    <<Call("NT", <<StrLit(<<67, 111, 110, 115, 116, 97, 110, 116, 77, 111, 100,
    105, 102, 105, 101, 114>>)>>)>>), Call("NT", <<StrLit(<<85, 110, 97, 110,
    110, 84, 121, 112, 101>>)>>), Call("NT", <<StrLit(<<86, 97, 114, 105, 97,
    98, 108, 101, 68, 101, 99, 108, 97, 114, 97, 116, 111, 114, 76, 105, 115,
    116>>)>>), Call("T", <<StrLit(<<59>>)>>)>>)>>)],
  \* lines 1030-1037: rules.set("ConstantModifier", () =>
  \* Diagram(Choice(0, NT("Annotation"), T("public"), T("static"), T("final"))
  \* )
  [name |-> <<67, 111, 110, 115, 116, 97, 110, 116, 77, 111, 100, 105, 102,
    105, 101, 114>>,
   body |-> Call("Diagram", <<Call("Choice", <<NumLit(0), Call("NT",
    <<StrLit(<<65, 110, 110, 111, 116, 97, 116, 105, 111, 110>>)>>), Call("T",
    <<StrLit(<<112, 117, 98, 108, 105, 99>>)>>), Call("T", <<StrLit(<<115, 116,
    97, 116, 105, 99>>)>>), Call("T", <<StrLit(<<102, 105, 110, 97,
    108>>)>>)>>)>>)],
  \* lines 1039-1047: rules.set("InterfaceMethodDeclaration", () =>
  \* Diagram(Sequence(ZeroOrMore(NT("InterfaceMethodModifier")), NT(
  \* "MethodHeader"), NT("MethodBody")))
  [name |-> <<73, 110, 116, 101, 114, 102, 97, 99, 101, 77, 101, 116, 104, 111,
    100, 68, 101, 99, 108, 97, 114, 97, 116, 105, 111, 110>>,
   body |-> Call("Diagram", <<Call("Sequence", <<Call("ZeroOrMore",
    <<Call("NT", <<StrLit(<<73, 110, 116, 101, 114, 102, 97, 99, 101, 77, 101,
    116, 104, 111, 100, 77, 111, 100, 105, 102, 105, 101, 114>>)>>)>>),
    Call("NT", <<StrLit(<<77, 101, 116, 104, 111, 100, 72, 101, 97, 100, 101,
    114>>)>>), Call("NT", <<StrLit(<<77, 101, 116, 104, 111, 100, 66, 111, 100,
    121>>)>>)>>)>>)],
  \* lines 1049-1057: rules.set("InterfaceMethodModifier", () =>
  \* Diagram(Choice(0, NT("Annotation"), T("public"), T("private"), T(
  \* "abstract"), T("default"), T("static"), T("strictfp")))
  [name |-> <<73, 110, 116, 101, 114, 102, 97, 99, 101, 77, 101, 116, 104, 111,
    100, 77, 111, 100, 105, 102, 105, 101, 114>>,
   body |-> Call("Diagram", <<Call("Choice", <<NumLit(0), Call("NT",
    <<StrLit(<<65, 110, 110, 111, 116, 97, 116, 105, 111, 110>>)>>), Call("T",
    <<StrLit(<<112, 117, 98, 108, 105, 99>>)>>), Call("T", <<StrLit(<<112, 114,
    105, 118, 97, 116, 101>>)>>), Call("T", <<StrLit(<<97, 98, 115, 116, 114,
    97, 99, 116>>)>>), Call("T", <<StrLit(<<100, 101, 102, 97, 117, 108,
    116>>)>>), Call("T", <<StrLit(<<115, 116, 97, 116, 105, 99>>)>>), Call("T",
    <<StrLit(<<115, 116, 114, 105, 99, 116, 102, 112>>)>>)>>)>>)],
  \* lines 1059-1069: rules.set("AnnotationInterfaceDeclaration", () =>
  \* Diagram(Sequence(ZeroOrMore(NT("InterfaceModifier")), T("@"), T(
  \* "interface"), NT("TypeIdentifier"), NT("AnnotationInterfaceBody")))
  [name |-> <<65, 110, 110, 111, 116, 97, 116, 105, 111, 110, 73, 110, 116,
    101, 114, 102, 97, 99, 101, 68, 101, 99, 108, 97, 114, 97, 116, 105, 111,
    110>>,
   body |-> Call("Diagram", <<Call("Sequence", <<Call("ZeroOrMore",
    <<Call("NT", <<StrLit(<<73, 110, 116, 101, 114, 102, 97, 99, 101, 77, 111,
    100, 105, 102, 105, 101, 114>>)>>)>>), Call("T", <<StrLit(<<64>>)>>),
    Call("T", <<StrLit(<<105, 110, 116, 101, 114, 102, 97, 99, 101>>)>>),
    Call("NT", <<StrLit(<<84, 121, 112, 101, 73, 100, 101, 110, 116, 105, 102,
    105, 101, 114>>)>>), Call("NT", <<StrLit(<<65, 110, 110, 111, 116, 97, 116,
    105, 111, 110, 73, 110, 116, 101, 114, 102, 97, 99, 101, 66, 111, 100,
    121>>)>>)>>)>>)],
  \* lines 1071-1073: rules.set("AnnotationInterfaceBody", () =>
  \* Diagram(Sequence(T("{"), ZeroOrMore(NT(
  \* "AnnotationInterfaceMemberDeclaration")), T("}")))
  [name |-> <<65, 110, 110, 111, 116, 97, 116, 105, 111, 110, 73, 110, 116,
    101, 114, 102, 97, 99, 101, 66, 111, 100, 121>>,
   body |-> Call("Diagram", <<Call("Sequence", <<Call("T",
    <<StrLit(<<123>>)>>), Call("ZeroOrMore", <<Call("NT", <<StrLit(<<65, 110,
    110, 111, 116, 97, 116, 105, 111, 110, 73, 110, 116, 101, 114, 102, 97, 99,
    101, 77, 101, 109, 98, 101, 114, 68, 101, 99, 108, 97, 114, 97, 116, 105,
    111, 110>>)>>)>>), Call("T", <<StrLit(<<125>>)>>)>>)>>)],
  \* lines 1075-1085: rules.set("AnnotationInterfaceMemberDeclaration", () =>
  \* Diagram(Choice(0, NT("AnnotationInterfaceElementDeclaration"), NT(
  \* "ConstantDeclaration"), NT("ClassDeclaration"), NT("InterfaceDeclaration"
  \* ), T(";")))
  [name |-> <<65, 110, 110, 111, 116, 97, 116, 105, 111, 110, 73, 110, 116,
    101, 114, 102, 97, 99, 101, 77, 101, 109, 98, 101, 114, 68, 101, 99, 108,
    97, 114, 97, 116, 105, 111, 110>>,
   body |-> Call("Diagram", <<Call("Choice", <<NumLit(0), Call("NT",
    <<StrLit(<<65, 110, 110, 111, 116, 97, 116, 105, 111, 110, 73, 110, 116,
    101, 114, 102, 97, 99, 101, 69, 108, 101, 109, 101, 110, 116, 68, 101, 99,
    108, 97, 114, 97, 116, 105, 111, 110>>)>>), Call("NT", <<StrLit(<<67, 111,
    110, 115, 116, 97, 110, 116, 68, 101, 99, 108, 97, 114, 97, 116, 105, 111,
    110>>)>>), Call("NT", <<StrLit(<<67, 108, 97, 115, 115, 68, 101, 99, 108,
    97, 114, 97, 116, 105, 111, 110>>)>>), Call("NT", <<StrLit(<<73, 110, 116,
    101, 114, 102, 97, 99, 101, 68, 101, 99, 108, 97, 114, 97, 116, 105, 111,
    110>>)>>), Call("T", <<StrLit(<<59>>)>>)>>)>>)],
  \* lines 1087-1100: rules.set("AnnotationInterfaceElementDeclaration", () =>
  \* Diagram(Sequence(ZeroOrMore(NT("AnnotationInterfaceElementModifier")),
  \* NT("UnannType"), NT("Identifier"), T("("), T(")"), Optional(NT("Dims")),
  \* Optional(NT("DefaultValue")), T(";")))
  [name |-> <<65, 110, 110, 111, 116, 97, 116, 105, 111, 110, 73, 110, 116,
    101, 114, 102, 97, 99, 101, 69, 108, 101, 109, 101, 110, 116, 68, 101, 99,
    108, 97, 114, 97, 116, 105, 111, 110>>,
   body |-> Call("Diagram", <<Call("Sequence", <<Call("ZeroOrMore",
    <<Call("NT", <<StrLit(<<65, 110, 110, 111, 116, 97, 116, 105, 111, 110, 73,
    110, 116, 101, 114, 102, 97, 99, 101, 69, 108, 101, 109, 101, 110, 116, 77,
    111, 100, 105, 102, 105, 101, 114>>)>>)>>), Call("NT", <<StrLit(<<85, 110,
    97, 110, 110, 84, 121, 112, 101>>)>>), Call("NT", <<StrLit(<<73, 100, 101,
    110, 116, 105, 102, 105, 101, 114>>)>>), Call("T", <<StrLit(<<40>>)>>),
    Call("T", <<StrLit(<<41>>)>>), Call("Optional", <<Call("NT", <<StrLit(<<68,
    105, 109, 115>>)>>)>>), Call("Optional", <<Call("NT", <<StrLit(<<68, 101,
    102, 97, 117, 108, 116, 86, 97, 108, 117, 101>>)>>)>>), Call("T",
    <<StrLit(<<59>>)>>)>>)>>)],
  \* lines 1102-1104: rules.set("AnnotationInterfaceElementModifier", () =>
  \* Diagram(Choice(0, NT("Annotation"), T("public"), T("abstract")))
  [name |-> <<65, 110, 110, 111, 116, 97, 116, 105, 111, 110, 73, 110, 116,
    101, 114, 102, 97, 99, 101, 69, 108, 101, 109, 101, 110, 116, 77, 111, 100,
    105, 102, 105, 101, 114>>,
   body |-> Call("Diagram", <<Call("Choice", <<NumLit(0), Call("NT",
    <<StrLit(<<65, 110, 110, 111, 116, 97, 116, 105, 111, 110>>)>>), Call("T",
    <<StrLit(<<112, 117, 98, 108, 105, 99>>)>>), Call("T", <<StrLit(<<97, 98,
    115, 116, 114, 97, 99, 116>>)>>)>>)>>)],
  \* lines 1106-1108: rules.set("DefaultValue", () =>
  \* Diagram(Sequence(T("default"), NT("ElementValue")))
  [name |-> <<68, 101, 102, 97, 117, 108, 116, 86, 97, 108, 117, 101>>,
   body |-> Call("Diagram", <<Call("Sequence", <<Call("T", <<StrLit(<<100, 101,
    102, 97, 117, 108, 116>>)>>), Call("NT", <<StrLit(<<69, 108, 101, 109, 101,
    110, 116, 86, 97, 108, 117, 101>>)>>)>>)>>)],
  \* lines 1110-1118: rules.set("Annotation", () =>
  \* Diagram(Choice(0, NT("NormalAnnotation"), NT("MarkerAnnotation"), NT(
  \* "SingleElementAnnotation")))
  [name |-> <<65, 110, 110, 111, 116, 97, 116, 105, 111, 110>>,
   body |-> Call("Diagram", <<Call("Choice", <<NumLit(0), Call("NT",
    <<StrLit(<<78, 111, 114, 109, 97, 108, 65, 110, 110, 111, 116, 97, 116,
    105, 111, 110>>)>>), Call("NT", <<StrLit(<<77, 97, 114, 107, 101, 114, 65,
    110, 110, 111, 116, 97, 116, 105, 111, 110>>)>>), Call("NT", <<StrLit(<<83,
    105, 110, 103, 108, 101, 69, 108, 101, 109, 101, 110, 116, 65, 110, 110,
    111, 116, 97, 116, 105, 111, 110>>)>>)>>)>>)],
  \* lines 1120-1130: rules.set("NormalAnnotation", () =>
  \* Diagram(Sequence(T("@"), NT("TypeName"), T("("), Optional(NT(
  \* "ElementValuePairList")), T(")")))
  [name |-> <<78, 111, 114, 109, 97, 108, 65, 110, 110, 111, 116, 97, 116, 105,
    111, 110>>,
   body |-> Call("Diagram", <<Call("Sequence", <<Call("T", <<StrLit(<<64>>)>>),
    Call("NT", <<StrLit(<<84, 121, 112, 101, 78, 97, 109, 101>>)>>), Call("T",
    <<StrLit(<<40>>)>>), Call("Optional", <<Call("NT", <<StrLit(<<69, 108, 101,
    109, 101, 110, 116, 86, 97, 108, 117, 101, 80, 97, 105, 114, 76, 105, 115,
    116>>)>>)>>), Call("T", <<StrLit(<<41>>)>>)>>)>>)],
  \* lines 1132-1139: rules.set("ElementValuePairList", () =>
  \* Diagram(Sequence(NT("ElementValuePair"), ZeroOrMore(Sequence(T(","), NT(
  \* "ElementValuePair")))))
  [name |-> <<69, 108, 101, 109, 101, 110, 116, 86, 97, 108, 117, 101, 80, 97,
    105, 114, 76, 105, 115, 116>>,
   body |-> Call("Diagram", <<Call("Sequence", <<Call("NT", <<StrLit(<<69, 108,
    101, 109, 101, 110, 116, 86, 97, 108, 117, 101, 80, 97, 105, 114>>)>>),
    Call("ZeroOrMore", <<Call("Sequence", <<Call("T", <<StrLit(<<44>>)>>),
    Call("NT", <<StrLit(<<69, 108, 101, 109, 101, 110, 116, 86, 97, 108, 117,
    101, 80, 97, 105, 114>>)>>)>>)>>)>>)>>)],
  \* lines 1141-1143: rules.set("ElementValuePair", () =>
  \* Diagram(Sequence(NT("Identifier"), T("="), NT("ElementValue")))
  [name |-> <<69, 108, 101, 109, 101, 110, 116, 86, 97, 108, 117, 101, 80, 97,
    105, 114>>,
   body |-> Call("Diagram", <<Call("Sequence", <<Call("NT", <<StrLit(<<73, 100,
    101, 110, 116, 105, 102, 105, 101, 114>>)>>), Call("T",
    <<StrLit(<<61>>)>>), Call("NT", <<StrLit(<<69, 108, 101, 109, 101, 110,
    116, 86, 97, 108, 117, 101>>)>>)>>)>>)],
  \* lines 1145-1153: rules.set("ElementValue", () =>
  \* Diagram(Choice(0, NT("ConditionalExpression"), NT(
  \* "ElementValueArrayInitializer"), NT("Annotation")))
  [name |-> <<69, 108, 101, 109, 101, 110, 116, 86, 97, 108, 117, 101>>,
   body |-> Call("Diagram", <<Call("Choice", <<NumLit(0), Call("NT",
    <<StrLit(<<67, 111, 110, 100, 105, 116, 105, 111, 110, 97, 108, 69, 120,
    112, 114, 101, 115, 115, 105, 111, 110>>)>>), Call("NT", <<StrLit(<<69,
    108, 101, 109, 101, 110, 116, 86, 97, 108, 117, 101, 65, 114, 114, 97, 121,
    73, 110, 105, 116, 105, 97, 108, 105, 122, 101, 114>>)>>), Call("NT",
    <<StrLit(<<65, 110, 110, 111, 116, 97, 116, 105, 111, 110>>)>>)>>)>>)],
  \* lines 1155-1164: rules.set("ElementValueArrayInitializer", () =>
  \* Diagram(Sequence(T("{"), Optional(NT("ElementValueList")), Optional(T(","
  \* )), T("}")))
  [name |-> <<69, 108, 101, 109, 101, 110, 116, 86, 97, 108, 117, 101, 65, 114,
    114, 97, 121, 73, 110, 105, 116, 105, 97, 108, 105, 122, 101, 114>>,
   body |-> Call("Diagram", <<Call("Sequence", <<Call("T",
    <<StrLit(<<123>>)>>), Call("Optional", <<Call("NT", <<StrLit(<<69, 108,
    101, 109, 101, 110, 116, 86, 97, 108, 117, 101, 76, 105, 115, 116>>)>>)>>),
    Call("Optional", <<Call("T", <<StrLit(<<44>>)>>)>>), Call("T",
    <<StrLit(<<125>>)>>)>>)>>)],
  \* lines 1166-1173: rules.set("ElementValueList", () =>
  \* Diagram(Sequence(NT("ElementValue"), ZeroOrMore(Sequence(T(","), NT(
  \* "ElementValue")))))
  [name |-> <<69, 108, 101, 109, 101, 110, 116, 86, 97, 108, 117, 101, 76, 105,
    115, 116>>,
   body |-> Call("Diagram", <<Call("Sequence", <<Call("NT", <<StrLit(<<69, 108,
    101, 109, 101, 110, 116, 86, 97, 108, 117, 101>>)>>), Call("ZeroOrMore",
    <<Call("Sequence", <<Call("T", <<StrLit(<<44>>)>>), Call("NT",
    <<StrLit(<<69, 108, 101, 109, 101, 110, 116, 86, 97, 108, 117,
    101>>)>>)>>)>>)>>)>>)],
  \* lines 1175-1177: rules.set("MarkerAnnotation", () =>
  \* Diagram(Sequence(T("@"), NT("TypeName")))
  [name |-> <<77, 97, 114, 107, 101, 114, 65, 110, 110, 111, 116, 97, 116, 105,
    111, 110>>,
   body |-> Call("Diagram", <<Call("Sequence", <<Call("T", <<StrLit(<<64>>)>>),
    Call("NT", <<StrLit(<<84, 121, 112, 101, 78, 97, 109, 101>>)>>)>>)>>)],
  \* lines 1179-1181: rules.set("SingleElementAnnotation", () =>
  \* Diagram(Sequence(T("@"), NT("TypeName"), T("("), NT("ElementValue"), T(
  \* ")")))
  [name |-> <<83, 105, 110, 103, 108, 101, 69, 108, 101, 109, 101, 110, 116,
    65, 110, 110, 111, 116, 97, 116, 105, 111, 110>>,
   body |-> Call("Diagram", <<Call("Sequence", <<Call("T", <<StrLit(<<64>>)>>),
    Call("NT", <<StrLit(<<84, 121, 112, 101, 78, 97, 109, 101>>)>>), Call("T",
    <<StrLit(<<40>>)>>), Call("NT", <<StrLit(<<69, 108, 101, 109, 101, 110,
    116, 86, 97, 108, 117, 101>>)>>), Call("T", <<StrLit(<<41>>)>>)>>)>>)],
  \* lines 1185-1194: rules.set("ArrayInitializer", () =>
  \* Diagram(Sequence(T("{"), Optional(NT("VariableInitializerList")),
  \* Optional(T(",")), T("}")))
  [name |-> <<65, 114, 114, 97, 121, 73, 110, 105, 116, 105, 97, 108, 105, 122,
    101, 114>>,
   body |-> Call("Diagram", <<Call("Sequence", <<Call("T",
    <<StrLit(<<123>>)>>), Call("Optional", <<Call("NT", <<StrLit(<<86, 97, 114,
    105, 97, 98, 108, 101, 73, 110, 105, 116, 105, 97, 108, 105, 122, 101, 114,
    76, 105, 115, 116>>)>>)>>), Call("Optional", <<Call("T",
    <<StrLit(<<44>>)>>)>>), Call("T", <<StrLit(<<125>>)>>)>>)>>)],
  \* lines 1196-1203: rules.set("VariableInitializerList", () =>
  \* Diagram(Sequence(NT("VariableInitializer"), ZeroOrMore(Sequence(T(","),
  \* NT("VariableInitializer")))))
  [name |-> <<86, 97, 114, 105, 97, 98, 108, 101, 73, 110, 105, 116, 105, 97,
    108, 105, 122, 101, 114, 76, 105, 115, 116>>,
   body |-> Call("Diagram", <<Call("Sequence", <<Call("NT", <<StrLit(<<86, 97,
    114, 105, 97, 98, 108, 101, 73, 110, 105, 116, 105, 97, 108, 105, 122, 101,
    114>>)>>), Call("ZeroOrMore", <<Call("Sequence", <<Call("T",
    <<StrLit(<<44>>)>>), Call("NT", <<StrLit(<<86, 97, 114, 105, 97, 98, 108,
    101, 73, 110, 105, 116, 105, 97, 108, 105, 122, 101,
    114>>)>>)>>)>>)>>)>>)],
  \* lines 1207-1209: rules.set("Block", () =>
  \* Diagram(Sequence(T("{"), Optional(NT("BlockStatements")), T("}")))
  [name |-> <<66, 108, 111, 99, 107>>,
   body |-> Call("Diagram", <<Call("Sequence", <<Call("T",
    <<StrLit(<<123>>)>>), Call("Optional", <<Call("NT", <<StrLit(<<66, 108,
    111, 99, 107, 83, 116, 97, 116, 101, 109, 101, 110, 116, 115>>)>>)>>),
    Call("T", <<StrLit(<<125>>)>>)>>)>>)],
  \* lines 1211-1213: rules.set("BlockStatements", () =>
  \* Diagram(OneOrMore(NT("BlockStatement")))
  [name |-> <<66, 108, 111, 99, 107, 83, 116, 97, 116, 101, 109, 101, 110, 116,
    115>>,
   body |-> Call("Diagram", <<Call("OneOrMore", <<Call("NT", <<StrLit(<<66,
    108, 111, 99, 107, 83, 116, 97, 116, 101, 109, 101, 110, 116>>)>>)>>)>>)],
  \* lines 1215-1223: rules.set("BlockStatement", () =>
  \* Diagram(Choice(0, NT("LocalClassOrInterfaceDeclaration"), NT(
  \* "LocalVariableDeclarationStatement"), NT("Statement")))
  [name |-> <<66, 108, 111, 99, 107, 83, 116, 97, 116, 101, 109, 101, 110,
    116>>,
   body |-> Call("Diagram", <<Call("Choice", <<NumLit(0), Call("NT",
    <<StrLit(<<76, 111, 99, 97, 108, 67, 108, 97, 115, 115, 79, 114, 73, 110,
    116, 101, 114, 102, 97, 99, 101, 68, 101, 99, 108, 97, 114, 97, 116, 105,
    111, 110>>)>>), Call("NT", <<StrLit(<<76, 111, 99, 97, 108, 86, 97, 114,
    105, 97, 98, 108, 101, 68, 101, 99, 108, 97, 114, 97, 116, 105, 111, 110,
    83, 116, 97, 116, 101, 109, 101, 110, 116>>)>>), Call("NT", <<StrLit(<<83,
    116, 97, 116, 101, 109, 101, 110, 116>>)>>)>>)>>)],
  \* lines 1225-1227: rules.set("LocalClassOrInterfaceDeclaration", () =>
  \* Diagram(Choice(0, NT("ClassDeclaration"), NT("NormalInterfaceDeclaration"
  \* )))
  [name |-> <<76, 111, 99, 97, 108, 67, 108, 97, 115, 115, 79, 114, 73, 110,
    116, 101, 114, 102, 97, 99, 101, 68, 101, 99, 108, 97, 114, 97, 116, 105,
    111, 110>>,
   body |-> Call("Diagram", <<Call("Choice", <<NumLit(0), Call("NT",
    <<StrLit(<<67, 108, 97, 115, 115, 68, 101, 99, 108, 97, 114, 97, 116, 105,
    111, 110>>)>>), Call("NT", <<StrLit(<<78, 111, 114, 109, 97, 108, 73, 110,
    116, 101, 114, 102, 97, 99, 101, 68, 101, 99, 108, 97, 114, 97, 116, 105,
    111, 110>>)>>)>>)>>)],
  \* lines 1229-1231: rules.set("LocalVariableDeclarationStatement", () =>
  \* Diagram(Sequence(NT("LocalVariableDeclaration"), T(";")))
  [name |-> <<76, 111, 99, 97, 108, 86, 97, 114, 105, 97, 98, 108, 101, 68,
    101, 99, 108, 97, 114, 97, 116, 105, 111, 110, 83, 116, 97, 116, 101, 109,
    101, 110, 116>>,
   body |-> Call("Diagram", <<Call("Sequence", <<Call("NT", <<StrLit(<<76, 111,
    99, 97, 108, 86, 97, 114, 105, 97, 98, 108, 101, 68, 101, 99, 108, 97, 114,
    97, 116, 105, 111, 110>>)>>), Call("T", <<StrLit(<<59>>)>>)>>)>>)],
  \* lines 1233-1241: rules.set("LocalVariableDeclaration", () =>
  \* Diagram(Sequence(ZeroOrMore(NT("VariableModifier")), NT(
  \* "LocalVariableType"), NT("VariableDeclaratorList")))
  [name |-> <<76, 111, 99, 97, 108, 86, 97, 114, 105, 97, 98, 108, 101, 68,
    101, 99, 108, 97, 114, 97, 116, 105, 111, 110>>,
   body |-> Call("Diagram", <<Call("Sequence", <<Call("ZeroOrMore",
    <<Call("NT", <<StrLit(<<86, 97, 114, 105, 97, 98, 108, 101, 77, 111, 100,
    105, 102, 105, 101, 114>>)>>)>>), Call("NT", <<StrLit(<<76, 111, 99, 97,
    108, 86, 97, 114, 105, 97, 98, 108, 101, 84, 121, 112, 101>>)>>),
    Call("NT", <<StrLit(<<86, 97, 114, 105, 97, 98, 108, 101, 68, 101, 99, 108,
    97, 114, 97, 116, 111, 114, 76, 105, 115, 116>>)>>)>>)>>)],
  \* lines 1243-1245: rules.set("LocalVariableType", () =>
  \* Diagram(Choice(0, NT("UnannType"), T("var")))
  [name |-> <<76, 111, 99, 97, 108, 86, 97, 114, 105, 97, 98, 108, 101, 84,
    121, 112, 101>>,
   body |-> Call("Diagram", <<Call("Choice", <<NumLit(0), Call("NT",
    <<StrLit(<<85, 110, 97, 110, 110, 84, 121, 112, 101>>)>>), Call("T",
    <<StrLit(<<118, 97, 114>>)>>)>>)>>)],
  \* lines 1247-1258: rules.set("Statement", () =>
  \* Diagram(Choice(0, NT("StatementWithoutTrailingSubstatement"), NT(
  \* "LabeledStatement"), NT("IfThenStatement"), NT("IfThenElseStatement"),
  \* NT("WhileStatement"), NT("ForStatement")))
  [name |-> <<83, 116, 97, 116, 101, 109, 101, 110, 116>>,
   body |-> Call("Diagram", <<Call("Choice", <<NumLit(0), Call("NT",
    <<StrLit(<<83, 116, 97, 116, 101, 109, 101, 110, 116, 87, 105, 116, 104,
    111, 117, 116, 84, 114, 97, 105, 108, 105, 110, 103, 83, 117, 98, 115, 116,
    97, 116, 101, 109, 101, 110, 116>>)>>), Call("NT", <<StrLit(<<76, 97, 98,
    101, 108, 101, 100, 83, 116, 97, 116, 101, 109, 101, 110, 116>>)>>),
    Call("NT", <<StrLit(<<73, 102, 84, 104, 101, 110, 83, 116, 97, 116, 101,
    109, 101, 110, 116>>)>>), Call("NT", <<StrLit(<<73, 102, 84, 104, 101, 110,
    69, 108, 115, 101, 83, 116, 97, 116, 101, 109, 101, 110, 116>>)>>),
    Call("NT", <<StrLit(<<87, 104, 105, 108, 101, 83, 116, 97, 116, 101, 109,
    101, 110, 116>>)>>), Call("NT", <<StrLit(<<70, 111, 114, 83, 116, 97, 116,
    101, 109, 101, 110, 116>>)>>)>>)>>)],
  \* lines 1260-1270: rules.set("StatementNoShortIf", () =>
  \* Diagram(Choice(0, NT("StatementWithoutTrailingSubstatement"), NT(
  \* "LabeledStatementNoShortIf"), NT("IfThenElseStatementNoShortIf"), NT(
  \* "WhileStatementNoShortIf"), NT("ForStatementNoShortIf")))
  [name |-> <<83, 116, 97, 116, 101, 109, 101, 110, 116, 78, 111, 83, 104, 111,
    114, 116, 73, 102>>,
   body |-> Call("Diagram", <<Call("Choice", <<NumLit(0), Call("NT",
    <<StrLit(<<83, 116, 97, 116, 101, 109, 101, 110, 116, 87, 105, 116, 104,
    111, 117, 116, 84, 114, 97, 105, 108, 105, 110, 103, 83, 117, 98, 115, 116,
    97, 116, 101, 109, 101, 110, 116>>)>>), Call("NT", <<StrLit(<<76, 97, 98,
    101, 108, 101, 100, 83, 116, 97, 116, 101, 109, 101, 110, 116, 78, 111, 83,
    104, 111, 114, 116, 73, 102>>)>>), Call("NT", <<StrLit(<<73, 102, 84, 104,
    101, 110, 69, 108, 115, 101, 83, 116, 97, 116, 101, 109, 101, 110, 116, 78,
    111, 83, 104, 111, 114, 116, 73, 102>>)>>), Call("NT", <<StrLit(<<87, 104,
    105, 108, 101, 83, 116, 97, 116, 101, 109, 101, 110, 116, 78, 111, 83, 104,
    111, 114, 116, 73, 102>>)>>), Call("NT", <<StrLit(<<70, 111, 114, 83, 116,
    97, 116, 101, 109, 101, 110, 116, 78, 111, 83, 104, 111, 114, 116, 73,
    102>>)>>)>>)>>)],
  \* lines 1272-1290: rules.set("StatementWithoutTrailingSubstatement", () =>
  \* Diagram(Choice(0, NT("Block"), NT("EmptyStatement"), NT(
  \* "ExpressionStatement"), NT("AssertStatement"), NT("SwitchStatement"), NT(
  \* "DoStatement"), NT("BreakStatement"), NT("ContinueStatement"), NT(
  \* "ReturnStatement"), NT("SynchronizedStatement"), NT("ThrowStatement"),
  \* NT("TryStatement"), NT("YieldStatement")))
  [name |-> <<83, 116, 97, 116, 101, 109, 101, 110, 116, 87, 105, 116, 104,
    111, 117, 116, 84, 114, 97, 105, 108, 105, 110, 103, 83, 117, 98, 115, 116,
    97, 116, 101, 109, 101, 110, 116>>,
   body |-> Call("Diagram", <<Call("Choice", <<NumLit(0), Call("NT",
    <<StrLit(<<66, 108, 111, 99, 107>>)>>), Call("NT", <<StrLit(<<69, 109, 112,
    116, 121, 83, 116, 97, 116, 101, 109, 101, 110, 116>>)>>), Call("NT",
    <<StrLit(<<69, 120, 112, 114, 101, 115, 115, 105, 111, 110, 83, 116, 97,
    116, 101, 109, 101, 110, 116>>)>>), Call("NT", <<StrLit(<<65, 115, 115,
    101, 114, 116, 83, 116, 97, 116, 101, 109, 101, 110, 116>>)>>), Call("NT",
    <<StrLit(<<83, 119, 105, 116, 99, 104, 83, 116, 97, 116, 101, 109, 101,
    110, 116>>)>>), Call("NT", <<StrLit(<<68, 111, 83, 116, 97, 116, 101, 109,
    101, 110, 116>>)>>), Call("NT", <<StrLit(<<66, 114, 101, 97, 107, 83, 116,
    97, 116, 101, 109, 101, 110, 116>>)>>), Call("NT", <<StrLit(<<67, 111, 110,
    116, 105, 110, 117, 101, 83, 116, 97, 116, 101, 109, 101, 110, 116>>)>>),
    Call("NT", <<StrLit(<<82, 101, 116, 117, 114, 110, 83, 116, 97, 116, 101,
    109, 101, 110, 116>>)>>), Call("NT", <<StrLit(<<83, 121, 110, 99, 104, 114,
    111, 110, 105, 122, 101, 100, 83, 116, 97, 116, 101, 109, 101, 110,
    116>>)>>), Call("NT", <<StrLit(<<84, 104, 114, 111, 119, 83, 116, 97, 116,
    101, 109, 101, 110, 116>>)>>), Call("NT", <<StrLit(<<84, 114, 121, 83, 116,
    97, 116, 101, 109, 101, 110, 116>>)>>), Call("NT", <<StrLit(<<89, 105, 101,
    108, 100, 83, 116, 97, 116, 101, 109, 101, 110, 116>>)>>)>>)>>)],
  \* lines 1292-1294: rules.set("EmptyStatement", () =>
  \* Diagram(T(";"))
  [name |-> <<69, 109, 112, 116, 121, 83, 116, 97, 116, 101, 109, 101, 110,
    116>>,
   body |-> Call("Diagram", <<Call("T", <<StrLit(<<59>>)>>)>>)],
  \* lines 1296-1298: rules.set("LabeledStatement", () =>
  \* Diagram(Sequence(NT("Identifier"), T(":"), NT("Statement")))
  [name |-> <<76, 97, 98, 101, 108, 101, 100, 83, 116, 97, 116, 101, 109, 101,
    110, 116>>,
   body |-> Call("Diagram", <<Call("Sequence", <<Call("NT", <<StrLit(<<73, 100,
    101, 110, 116, 105, 102, 105, 101, 114>>)>>), Call("T",
    <<StrLit(<<58>>)>>), Call("NT", <<StrLit(<<83, 116, 97, 116, 101, 109, 101,
    110, 116>>)>>)>>)>>)],
  \* lines 1300-1302: rules.set("LabeledStatementNoShortIf", () =>
  \* Diagram(Sequence(NT("Identifier"), T(":"), NT("StatementNoShortIf")))
  [name |-> <<76, 97, 98, 101, 108, 101, 100, 83, 116, 97, 116, 101, 109, 101,
    110, 116, 78, 111, 83, 104, 111, 114, 116, 73, 102>>,
   body |-> Call("Diagram", <<Call("Sequence", <<Call("NT", <<StrLit(<<73, 100,
    101, 110, 116, 105, 102, 105, 101, 114>>)>>), Call("T",
    <<StrLit(<<58>>)>>), Call("NT", <<StrLit(<<83, 116, 97, 116, 101, 109, 101,
    110, 116, 78, 111, 83, 104, 111, 114, 116, 73, 102>>)>>)>>)>>)],
  \* lines 1304-1306: rules.set("ExpressionStatement", () =>
  \* Diagram(Sequence(NT("StatementExpression"), T(";")))
  [name |-> <<69, 120, 112, 114, 101, 115, 115, 105, 111, 110, 83, 116, 97,
    116, 101, 109, 101, 110, 116>>,
   body |-> Call("Diagram", <<Call("Sequence", <<Call("NT", <<StrLit(<<83, 116,
    97, 116, 101, 109, 101, 110, 116, 69, 120, 112, 114, 101, 115, 115, 105,
    111, 110>>)>>), Call("T", <<StrLit(<<59>>)>>)>>)>>)],
  \* lines 1308-1320: rules.set("StatementExpression", () =>
  \* Diagram(Choice(0, NT("Assignment"), NT("PreIncrementExpression"), NT(
  \* "PreDecrementExpression"), NT("PostIncrementExpression"), NT(
  \* "PostDecrementExpression"), NT("MethodInvocation"), NT(
  \* "ClassInstanceCreationExpression")))
  [name |-> <<83, 116, 97, 116, 101, 109, 101, 110, 116, 69, 120, 112, 114,
    101, 115, 115, 105, 111, 110>>,
   body |-> Call("Diagram", <<Call("Choice", <<NumLit(0), Call("NT",
    <<StrLit(<<65, 115, 115, 105, 103, 110, 109, 101, 110, 116>>)>>),
    Call("NT", <<StrLit(<<80, 114, 101, 73, 110, 99, 114, 101, 109, 101, 110,
    116, 69, 120, 112, 114, 101, 115, 115, 105, 111, 110>>)>>), Call("NT",
    <<StrLit(<<80, 114, 101, 68, 101, 99, 114, 101, 109, 101, 110, 116, 69,
    120, 112, 114, 101, 115, 115, 105, 111, 110>>)>>), Call("NT",
    <<StrLit(<<80, 111, 115, 116, 73, 110, 99, 114, 101, 109, 101, 110, 116,
    69, 120, 112, 114, 101, 115, 115, 105, 111, 110>>)>>), Call("NT",
    <<StrLit(<<80, 111, 115, 116, 68, 101, 99, 114, 101, 109, 101, 110, 116,
    69, 120, 112, 114, 101, 115, 115, 105, 111, 110>>)>>), Call("NT",
    <<StrLit(<<77, 101, 116, 104, 111, 100, 73, 110, 118, 111, 99, 97, 116,
    105, 111, 110>>)>>), Call("NT", <<StrLit(<<67, 108, 97, 115, 115, 73, 110,
    115, 116, 97, 110, 99, 101, 67, 114, 101, 97, 116, 105, 111, 110, 69, 120,
    112, 114, 101, 115, 115, 105, 111, 110>>)>>)>>)>>)],
  \* lines 1322-1324: rules.set("IfThenStatement", () =>
  \* Diagram(Sequence(T("if"), T("("), NT("Expression"), T(")"), NT(
  \* "Statement")))
  [name |-> <<73, 102, 84, 104, 101, 110, 83, 116, 97, 116, 101, 109, 101, 110,
    116>>,
   body |-> Call("Diagram", <<Call("Sequence", <<Call("T", <<StrLit(<<105,
    102>>)>>), Call("T", <<StrLit(<<40>>)>>), Call("NT", <<StrLit(<<69, 120,
    112, 114, 101, 115, 115, 105, 111, 110>>)>>), Call("T",
    <<StrLit(<<41>>)>>), Call("NT", <<StrLit(<<83, 116, 97, 116, 101, 109, 101,
    110, 116>>)>>)>>)>>)],
  \* lines 1326-1328: rules.set("IfThenElseStatement", () =>
  \* Diagram(Sequence(T("if"), T("("), NT("Expression"), T(")"), NT(
  \* "StatementNoShortIf"), T("else"), NT("Statement")))
  [name |-> <<73, 102, 84, 104, 101, 110, 69, 108, 115, 101, 83, 116, 97, 116,
    101, 109, 101, 110, 116>>,
   body |-> Call("Diagram", <<Call("Sequence", <<Call("T", <<StrLit(<<105,
    102>>)>>), Call("T", <<StrLit(<<40>>)>>), Call("NT", <<StrLit(<<69, 120,
    112, 114, 101, 115, 115, 105, 111, 110>>)>>), Call("T",
    <<StrLit(<<41>>)>>), Call("NT", <<StrLit(<<83, 116, 97, 116, 101, 109, 101,
    110, 116, 78, 111, 83, 104, 111, 114, 116, 73, 102>>)>>), Call("T",
    <<StrLit(<<101, 108, 115, 101>>)>>), Call("NT", <<StrLit(<<83, 116, 97,
    116, 101, 109, 101, 110, 116>>)>>)>>)>>)],
  \* lines 1330-1332: rules.set("IfThenElseStatementNoShortIf", () =>
  \* Diagram(Sequence(T("if"), T("("), NT("Expression"), T(")"), NT(
  \* "StatementNoShortIf"), T("else"), NT("StatementNoShortIf")))
  [name |-> <<73, 102, 84, 104, 101, 110, 69, 108, 115, 101, 83, 116, 97, 116,
    101, 109, 101, 110, 116, 78, 111, 83, 104, 111, 114, 116, 73, 102>>,
   body |-> Call("Diagram", <<Call("Sequence", <<Call("T", <<StrLit(<<105,
    102>>)>>), Call("T", <<StrLit(<<40>>)>>), Call("NT", <<StrLit(<<69, 120,
    112, 114, 101, 115, 115, 105, 111, 110>>)>>), Call("T",
    <<StrLit(<<41>>)>>), Call("NT", <<StrLit(<<83, 116, 97, 116, 101, 109, 101,
    110, 116, 78, 111, 83, 104, 111, 114, 116, 73, 102>>)>>), Call("T",
    <<StrLit(<<101, 108, 115, 101>>)>>), Call("NT", <<StrLit(<<83, 116, 97,
    116, 101, 109, 101, 110, 116, 78, 111, 83, 104, 111, 114, 116, 73,
    102>>)>>)>>)>>)],
  \* lines 1334-1341: rules.set("AssertStatement", () =>
  \* Diagram(Choice(0, Sequence(T("assert"), NT("Expression"), T(";")),
  \* Sequence(T("assert"), NT("Expression"), T(":"), NT("Expression"), T(";"))
  \* ))
  [name |-> <<65, 115, 115, 101, 114, 116, 83, 116, 97, 116, 101, 109, 101,
    110, 116>>,
   body |-> Call("Diagram", <<Call("Choice", <<NumLit(0), Call("Sequence",
    <<Call("T", <<StrLit(<<97, 115, 115, 101, 114, 116>>)>>), Call("NT",
    <<StrLit(<<69, 120, 112, 114, 101, 115, 115, 105, 111, 110>>)>>), Call("T",
    <<StrLit(<<59>>)>>)>>), Call("Sequence", <<Call("T", <<StrLit(<<97, 115,
    115, 101, 114, 116>>)>>), Call("NT", <<StrLit(<<69, 120, 112, 114, 101,
    115, 115, 105, 111, 110>>)>>), Call("T", <<StrLit(<<58>>)>>), Call("NT",
    <<StrLit(<<69, 120, 112, 114, 101, 115, 115, 105, 111, 110>>)>>), Call("T",
    <<StrLit(<<59>>)>>)>>)>>)>>)],
  \* lines 1343-1345: rules.set("SwitchStatement", () =>
  \* Diagram(Sequence(T("switch"), T("("), NT("Expression"), T(")"), NT(
  \* "SwitchBlock")))
  [name |-> <<83, 119, 105, 116, 99, 104, 83, 116, 97, 116, 101, 109, 101, 110,
    116>>,
   body |-> Call("Diagram", <<Call("Sequence", <<Call("T", <<StrLit(<<115, 119,
    105, 116, 99, 104>>)>>), Call("T", <<StrLit(<<40>>)>>), Call("NT",
    <<StrLit(<<69, 120, 112, 114, 101, 115, 115, 105, 111, 110>>)>>), Call("T",
    <<StrLit(<<41>>)>>), Call("NT", <<StrLit(<<83, 119, 105, 116, 99, 104, 66,
    108, 111, 99, 107>>)>>)>>)>>)],
  \* lines 1347-1354: rules.set("SwitchBlock", () =>
  \* Diagram(Choice(0, Sequence(T("{"), OneOrMore(NT("SwitchRule")), T("}")),
  \* Sequence(T("{"), ZeroOrMore(NT("SwitchBlockStatementGroup")), ZeroOrMore(
  \* Sequence(NT("SwitchLabel"), T(":"))), T("}"))))
  [name |-> <<83, 119, 105, 116, 99, 104, 66, 108, 111, 99, 107>>,
   body |-> Call("Diagram", <<Call("Choice", <<NumLit(0), Call("Sequence",
    <<Call("T", <<StrLit(<<123>>)>>), Call("OneOrMore", <<Call("NT",
    <<StrLit(<<83, 119, 105, 116, 99, 104, 82, 117, 108, 101>>)>>)>>),
    Call("T", <<StrLit(<<125>>)>>)>>), Call("Sequence", <<Call("T",
    <<StrLit(<<123>>)>>), Call("ZeroOrMore", <<Call("NT", <<StrLit(<<83, 119,
    105, 116, 99, 104, 66, 108, 111, 99, 107, 83, 116, 97, 116, 101, 109, 101,
    110, 116, 71, 114, 111, 117, 112>>)>>)>>), Call("ZeroOrMore",
    <<Call("Sequence", <<Call("NT", <<StrLit(<<83, 119, 105, 116, 99, 104, 76,
    97, 98, 101, 108>>)>>), Call("T", <<StrLit(<<58>>)>>)>>)>>), Call("T",
    <<StrLit(<<125>>)>>)>>)>>)>>)],
  \* lines 1356-1364: rules.set("SwitchRule", () =>
  \* Diagram(Choice(0, Sequence(NT("SwitchLabel"), T("->"), NT("Expression"),
  \* T(";")), Sequence(NT("SwitchLabel"), T("->"), NT("Block")), Sequence(NT(
  \* "SwitchLabel"), T("->"), NT("ThrowStatement"))))
  [name |-> <<83, 119, 105, 116, 99, 104, 82, 117, 108, 101>>,
   body |-> Call("Diagram", <<Call("Choice", <<NumLit(0), Call("Sequence",
    <<Call("NT", <<StrLit(<<83, 119, 105, 116, 99, 104, 76, 97, 98, 101,
    108>>)>>), Call("T", <<StrLit(<<45, 62>>)>>), Call("NT", <<StrLit(<<69,
    120, 112, 114, 101, 115, 115, 105, 111, 110>>)>>), Call("T",
    <<StrLit(<<59>>)>>)>>), Call("Sequence", <<Call("NT", <<StrLit(<<83, 119,
    105, 116, 99, 104, 76, 97, 98, 101, 108>>)>>), Call("T", <<StrLit(<<45,
    62>>)>>), Call("NT", <<StrLit(<<66, 108, 111, 99, 107>>)>>)>>),
    Call("Sequence", <<Call("NT", <<StrLit(<<83, 119, 105, 116, 99, 104, 76,
    97, 98, 101, 108>>)>>), Call("T", <<StrLit(<<45, 62>>)>>), Call("NT",
    <<StrLit(<<84, 104, 114, 111, 119, 83, 116, 97, 116, 101, 109, 101, 110,
    116>>)>>)>>)>>)>>)],
  \* lines 1366-1375: rules.set("SwitchBlockStatementGroup", () =>
  \* Diagram(Sequence(NT("SwitchLabel"), T(":"), ZeroOrMore(Sequence(NT(
  \* "SwitchLabel"), T(":"))), NT("BlockStatements")))
  [name |-> <<83, 119, 105, 116, 99, 104, 66, 108, 111, 99, 107, 83, 116, 97,
    116, 101, 109, 101, 110, 116, 71, 114, 111, 117, 112>>,
   body |-> Call("Diagram", <<Call("Sequence", <<Call("NT", <<StrLit(<<83, 119,
    105, 116, 99, 104, 76, 97, 98, 101, 108>>)>>), Call("T",
    <<StrLit(<<58>>)>>), Call("ZeroOrMore", <<Call("Sequence", <<Call("NT",
    <<StrLit(<<83, 119, 105, 116, 99, 104, 76, 97, 98, 101, 108>>)>>),
    Call("T", <<StrLit(<<58>>)>>)>>)>>), Call("NT", <<StrLit(<<66, 108, 111,
    99, 107, 83, 116, 97, 116, 101, 109, 101, 110, 116, 115>>)>>)>>)>>)],
  \* lines 1377-1386: rules.set("SwitchLabel", () =>
  \* Diagram(Choice(0, Sequence(T("case"), NT("CaseConstant"), ZeroOrMore(
  \* Sequence(T(","), NT("CaseConstant")))), Sequence(T("case"), T("null"),
  \* Optional(Sequence(T(","), T("default")))), Sequence(T("case"), NT(
  \* "CasePattern"), ZeroOrMore(Sequence(T(","), NT("CasePattern"))),
  \* Optional(NT("Guard"))), T("default")))
  [name |-> <<83, 119, 105, 116, 99, 104, 76, 97, 98, 101, 108>>,
   body |-> Call("Diagram", <<Call("Choice", <<NumLit(0), Call("Sequence",
    <<Call("T", <<StrLit(<<99, 97, 115, 101>>)>>), Call("NT", <<StrLit(<<67,
    97, 115, 101, 67, 111, 110, 115, 116, 97, 110, 116>>)>>),
    Call("ZeroOrMore", <<Call("Sequence", <<Call("T", <<StrLit(<<44>>)>>),
    Call("NT", <<StrLit(<<67, 97, 115, 101, 67, 111, 110, 115, 116, 97, 110,
    116>>)>>)>>)>>)>>), Call("Sequence", <<Call("T", <<StrLit(<<99, 97, 115,
    101>>)>>), Call("T", <<StrLit(<<110, 117, 108, 108>>)>>), Call("Optional",
    <<Call("Sequence", <<Call("T", <<StrLit(<<44>>)>>), Call("T",
    <<StrLit(<<100, 101, 102, 97, 117, 108, 116>>)>>)>>)>>)>>),
    Call("Sequence", <<Call("T", <<StrLit(<<99, 97, 115, 101>>)>>), Call("NT",
    <<StrLit(<<67, 97, 115, 101, 80, 97, 116, 116, 101, 114, 110>>)>>),
    Call("ZeroOrMore", <<Call("Sequence", <<Call("T", <<StrLit(<<44>>)>>),
    Call("NT", <<StrLit(<<67, 97, 115, 101, 80, 97, 116, 116, 101, 114,
    110>>)>>)>>)>>), Call("Optional", <<Call("NT", <<StrLit(<<71, 117, 97, 114,
    100>>)>>)>>)>>), Call("T", <<StrLit(<<100, 101, 102, 97, 117, 108,
    116>>)>>)>>)>>)],
  \* lines 1388-1390: rules.set("CaseConstant", () =>
  \* Diagram(NT("ConditionalExpression"))
  [name |-> <<67, 97, 115, 101, 67, 111, 110, 115, 116, 97, 110, 116>>,
   body |-> Call("Diagram", <<Call("NT", <<StrLit(<<67, 111, 110, 100, 105,
    116, 105, 111, 110, 97, 108, 69, 120, 112, 114, 101, 115, 115, 105, 111,
    110>>)>>)>>)],
  \* lines 1392-1394: rules.set("CasePattern", () =>
  \* Diagram(NT("Pattern"))
  [name |-> <<67, 97, 115, 101, 80, 97, 116, 116, 101, 114, 110>>,
   body |-> Call("Diagram", <<Call("NT", <<StrLit(<<80, 97, 116, 116, 101, 114,
    110>>)>>)>>)],
  \* lines 1396-1398: rules.set("Guard", () =>
  \* Diagram(Sequence(T("when"), NT("Expression")))
  [name |-> <<71, 117, 97, 114, 100>>,
   body |-> Call("Diagram", <<Call("Sequence", <<Call("T", <<StrLit(<<119, 104,
    101, 110>>)>>), Call("NT", <<StrLit(<<69, 120, 112, 114, 101, 115, 115,
    105, 111, 110>>)>>)>>)>>)],
  \* lines 1400-1402: rules.set("WhileStatement", () =>
  \* Diagram(Sequence(T("while"), T("("), NT("Expression"), T(")"), NT(
  \* "Statement")))
  [name |-> <<87, 104, 105, 108, 101, 83, 116, 97, 116, 101, 109, 101, 110,
    116>>,
   body |-> Call("Diagram", <<Call("Sequence", <<Call("T", <<StrLit(<<119, 104,
    105, 108, 101>>)>>), Call("T", <<StrLit(<<40>>)>>), Call("NT",
    <<StrLit(<<69, 120, 112, 114, 101, 115, 115, 105, 111, 110>>)>>), Call("T",
    <<StrLit(<<41>>)>>), Call("NT", <<StrLit(<<83, 116, 97, 116, 101, 109, 101,
    110, 116>>)>>)>>)>>)],
  \* lines 1404-1406: rules.set("WhileStatementNoShortIf", () =>
  \* Diagram(Sequence(T("while"), T("("), NT("Expression"), T(")"), NT(
  \* "StatementNoShortIf")))
  [name |-> <<87, 104, 105, 108, 101, 83, 116, 97, 116, 101, 109, 101, 110,
    116, 78, 111, 83, 104, 111, 114, 116, 73, 102>>,
   body |-> Call("Diagram", <<Call("Sequence", <<Call("T", <<StrLit(<<119, 104,
    105, 108, 101>>)>>), Call("T", <<StrLit(<<40>>)>>), Call("NT",
    <<StrLit(<<69, 120, 112, 114, 101, 115, 115, 105, 111, 110>>)>>), Call("T",
    <<StrLit(<<41>>)>>), Call("NT", <<StrLit(<<83, 116, 97, 116, 101, 109, 101,
    110, 116, 78, 111, 83, 104, 111, 114, 116, 73, 102>>)>>)>>)>>)],
  \* lines 1408-1410: rules.set("DoStatement", () =>
  \* Diagram(Sequence(T("do"), NT("Statement"), T("while"), T("("), NT(
  \* "Expression"), T(")"), T(";")))
  [name |-> <<68, 111, 83, 116, 97, 116, 101, 109, 101, 110, 116>>,
   body |-> Call("Diagram", <<Call("Sequence", <<Call("T", <<StrLit(<<100,
    111>>)>>), Call("NT", <<StrLit(<<83, 116, 97, 116, 101, 109, 101, 110,
    116>>)>>), Call("T", <<StrLit(<<119, 104, 105, 108, 101>>)>>), Call("T",
    <<StrLit(<<40>>)>>), Call("NT", <<StrLit(<<69, 120, 112, 114, 101, 115,
    115, 105, 111, 110>>)>>), Call("T", <<StrLit(<<41>>)>>), Call("T",
    <<StrLit(<<59>>)>>)>>)>>)],
  \* lines 1412-1414: rules.set("ForStatement", () =>
  \* Diagram(Choice(0, NT("BasicForStatement"), NT("EnhancedForStatement")))
  [name |-> <<70, 111, 114, 83, 116, 97, 116, 101, 109, 101, 110, 116>>,
   body |-> Call("Diagram", <<Call("Choice", <<NumLit(0), Call("NT",
    <<StrLit(<<66, 97, 115, 105, 99, 70, 111, 114, 83, 116, 97, 116, 101, 109,
    101, 110, 116>>)>>), Call("NT", <<StrLit(<<69, 110, 104, 97, 110, 99, 101,
    100, 70, 111, 114, 83, 116, 97, 116, 101, 109, 101, 110, 116>>)>>)>>)>>)],
  \* lines 1416-1418: rules.set("ForStatementNoShortIf", () =>
  \* Diagram(Choice(0, NT("BasicForStatementNoShortIf"), NT(
  \* "EnhancedForStatementNoShortIf")))
  [name |-> <<70, 111, 114, 83, 116, 97, 116, 101, 109, 101, 110, 116, 78, 111,
    83, 104, 111, 114, 116, 73, 102>>,
   body |-> Call("Diagram", <<Call("Choice", <<NumLit(0), Call("NT",
    <<StrLit(<<66, 97, 115, 105, 99, 70, 111, 114, 83, 116, 97, 116, 101, 109,
    101, 110, 116, 78, 111, 83, 104, 111, 114, 116, 73, 102>>)>>), Call("NT",
    <<StrLit(<<69, 110, 104, 97, 110, 99, 101, 100, 70, 111, 114, 83, 116, 97,
    116, 101, 109, 101, 110, 116, 78, 111, 83, 104, 111, 114, 116, 73,
    102>>)>>)>>)>>)],
  \* lines 1420-1434: rules.set("BasicForStatement", () =>
  \* Diagram(Sequence(T("for"), T("("), Optional(NT("ForInit")), T(";"),
  \* Optional(NT("Expression")), T(";"), Optional(NT("ForUpdate")), T(")"),
  \* NT("Statement")))
  [name |-> <<66, 97, 115, 105, 99, 70, 111, 114, 83, 116, 97, 116, 101, 109,
    101, 110, 116>>,
   body |-> Call("Diagram", <<Call("Sequence", <<Call("T", <<StrLit(<<102, 111,
    114>>)>>), Call("T", <<StrLit(<<40>>)>>), Call("Optional", <<Call("NT",
    <<StrLit(<<70, 111, 114, 73, 110, 105, 116>>)>>)>>), Call("T",
    <<StrLit(<<59>>)>>), Call("Optional", <<Call("NT", <<StrLit(<<69, 120, 112,
    114, 101, 115, 115, 105, 111, 110>>)>>)>>), Call("T", <<StrLit(<<59>>)>>),
    Call("Optional", <<Call("NT", <<StrLit(<<70, 111, 114, 85, 112, 100, 97,
    116, 101>>)>>)>>), Call("T", <<StrLit(<<41>>)>>), Call("NT", <<StrLit(<<83,
    116, 97, 116, 101, 109, 101, 110, 116>>)>>)>>)>>)],
  \* lines 1436-1450: rules.set("BasicForStatementNoShortIf", () =>
  \* Diagram(Sequence(T("for"), T("("), Optional(NT("ForInit")), T(";"),
  \* Optional(NT("Expression")), T(";"), Optional(NT("ForUpdate")), T(")"),
  \* NT("StatementNoShortIf")))
  [name |-> <<66, 97, 115, 105, 99, 70, 111, 114, 83, 116, 97, 116, 101, 109,
    101, 110, 116, 78, 111, 83, 104, 111, 114, 116, 73, 102>>,
   body |-> Call("Diagram", <<Call("Sequence", <<Call("T", <<StrLit(<<102, 111,
    114>>)>>), Call("T", <<StrLit(<<40>>)>>), Call("Optional", <<Call("NT",
    <<StrLit(<<70, 111, 114, 73, 110, 105, 116>>)>>)>>), Call("T",
    <<StrLit(<<59>>)>>), Call("Optional", <<Call("NT", <<StrLit(<<69, 120, 112,
    114, 101, 115, 115, 105, 111, 110>>)>>)>>), Call("T", <<StrLit(<<59>>)>>),
    Call("Optional", <<Call("NT", <<StrLit(<<70, 111, 114, 85, 112, 100, 97,
    116, 101>>)>>)>>), Call("T", <<StrLit(<<41>>)>>), Call("NT", <<StrLit(<<83,
    116, 97, 116, 101, 109, 101, 110, 116, 78, 111, 83, 104, 111, 114, 116, 73,
    102>>)>>)>>)>>)],
  \* lines 1452-1454: rules.set("ForInit", () =>
  \* Diagram(Choice(0, NT("StatementExpressionList"), NT(
  \* "LocalVariableDeclaration")))
  [name |-> <<70, 111, 114, 73, 110, 105, 116>>,
   body |-> Call("Diagram", <<Call("Choice", <<NumLit(0), Call("NT",
    <<StrLit(<<83, 116, 97, 116, 101, 109, 101, 110, 116, 69, 120, 112, 114,
    101, 115, 115, 105, 111, 110, 76, 105, 115, 116>>)>>), Call("NT",
    <<StrLit(<<76, 111, 99, 97, 108, 86, 97, 114, 105, 97, 98, 108, 101, 68,
    101, 99, 108, 97, 114, 97, 116, 105, 111, 110>>)>>)>>)>>)],
  \* lines 1456-1458: rules.set("ForUpdate", () =>
  \* Diagram(NT("StatementExpressionList"))
  [name |-> <<70, 111, 114, 85, 112, 100, 97, 116, 101>>,
   body |-> Call("Diagram", <<Call("NT", <<StrLit(<<83, 116, 97, 116, 101, 109,
    101, 110, 116, 69, 120, 112, 114, 101, 115, 115, 105, 111, 110, 76, 105,
    115, 116>>)>>)>>)],
  \* lines 1460-1467: rules.set("StatementExpressionList", () =>
  \* Diagram(Sequence(NT("StatementExpression"), ZeroOrMore(Sequence(T(","),
  \* NT("StatementExpression")))))
  [name |-> <<83, 116, 97, 116, 101, 109, 101, 110, 116, 69, 120, 112, 114,
    101, 115, 115, 105, 111, 110, 76, 105, 115, 116>>,
   body |-> Call("Diagram", <<Call("Sequence", <<Call("NT", <<StrLit(<<83, 116,
    97, 116, 101, 109, 101, 110, 116, 69, 120, 112, 114, 101, 115, 115, 105,
    111, 110>>)>>), Call("ZeroOrMore", <<Call("Sequence", <<Call("T",
    <<StrLit(<<44>>)>>), Call("NT", <<StrLit(<<83, 116, 97, 116, 101, 109, 101,
    110, 116, 69, 120, 112, 114, 101, 115, 115, 105, 111,
    110>>)>>)>>)>>)>>)>>)],
  \* lines 1469-1473: rules.set("EnhancedForStatement", () =>
  \* Diagram(Sequence(T("for"), T("("), NT("LocalVariableDeclaration"), T(":"
  \* ), NT("Expression"), T(")"), NT("Statement")))
  [name |-> <<69, 110, 104, 97, 110, 99, 101, 100, 70, 111, 114, 83, 116, 97,
    116, 101, 109, 101, 110, 116>>,
   body |-> Call("Diagram", <<Call("Sequence", <<Call("T", <<StrLit(<<102, 111,
    114>>)>>), Call("T", <<StrLit(<<40>>)>>), Call("NT", <<StrLit(<<76, 111,
    99, 97, 108, 86, 97, 114, 105, 97, 98, 108, 101, 68, 101, 99, 108, 97, 114,
    97, 116, 105, 111, 110>>)>>), Call("T", <<StrLit(<<58>>)>>), Call("NT",
    <<StrLit(<<69, 120, 112, 114, 101, 115, 115, 105, 111, 110>>)>>), Call("T",
    <<StrLit(<<41>>)>>), Call("NT", <<StrLit(<<83, 116, 97, 116, 101, 109, 101,
    110, 116>>)>>)>>)>>)],
  \* lines 1475-1479: rules.set("EnhancedForStatementNoShortIf", () =>
  \* Diagram(Sequence(T("for"), T("("), NT("LocalVariableDeclaration"), T(":"
  \* ), NT("Expression"), T(")"), NT("StatementNoShortIf")))
  [name |-> <<69, 110, 104, 97, 110, 99, 101, 100, 70, 111, 114, 83, 116, 97,
    116, 101, 109, 101, 110, 116, 78, 111, 83, 104, 111, 114, 116, 73, 102>>,
   body |-> Call("Diagram", <<Call("Sequence", <<Call("T", <<StrLit(<<102, 111,
    114>>)>>), Call("T", <<StrLit(<<40>>)>>), Call("NT", <<StrLit(<<76, 111,
    99, 97, 108, 86, 97, 114, 105, 97, 98, 108, 101, 68, 101, 99, 108, 97, 114,
    97, 116, 105, 111, 110>>)>>), Call("T", <<StrLit(<<58>>)>>), Call("NT",
    <<StrLit(<<69, 120, 112, 114, 101, 115, 115, 105, 111, 110>>)>>), Call("T",
    <<StrLit(<<41>>)>>), Call("NT", <<StrLit(<<83, 116, 97, 116, 101, 109, 101,
    110, 116, 78, 111, 83, 104, 111, 114, 116, 73, 102>>)>>)>>)>>)],
  \* lines 1481-1483: rules.set("BreakStatement", () =>
  \* Diagram(Sequence(T("break"), Optional(NT("Identifier")), T(";")))
  [name |-> <<66, 114, 101, 97, 107, 83, 116, 97, 116, 101, 109, 101, 110,
    116>>,
   body |-> Call("Diagram", <<Call("Sequence", <<Call("T", <<StrLit(<<98, 114,
    101, 97, 107>>)>>), Call("Optional", <<Call("NT", <<StrLit(<<73, 100, 101,
    110, 116, 105, 102, 105, 101, 114>>)>>)>>), Call("T",
    <<StrLit(<<59>>)>>)>>)>>)],
  \* lines 1485-1487: rules.set("YieldStatement", () =>
  \* Diagram(Sequence(T("yield"), NT("Expression"), T(";")))
  [name |-> <<89, 105, 101, 108, 100, 83, 116, 97, 116, 101, 109, 101, 110,
    116>>,
   body |-> Call("Diagram", <<Call("Sequence", <<Call("T", <<StrLit(<<121, 105,
    101, 108, 100>>)>>), Call("NT", <<StrLit(<<69, 120, 112, 114, 101, 115,
    115, 105, 111, 110>>)>>), Call("T", <<StrLit(<<59>>)>>)>>)>>)],
  \* lines 1489-1491: rules.set("ContinueStatement", () =>
  \* Diagram(Sequence(T("continue"), Optional(NT("Identifier")), T(";")))
  [name |-> <<67, 111, 110, 116, 105, 110, 117, 101, 83, 116, 97, 116, 101,
    109, 101, 110, 116>>,
   body |-> Call("Diagram", <<Call("Sequence", <<Call("T", <<StrLit(<<99, 111,
    110, 116, 105, 110, 117, 101>>)>>), Call("Optional", <<Call("NT",
    <<StrLit(<<73, 100, 101, 110, 116, 105, 102, 105, 101, 114>>)>>)>>),
    Call("T", <<StrLit(<<59>>)>>)>>)>>)],
  \* lines 1493-1495: rules.set("ReturnStatement", () =>
  \* Diagram(Sequence(T("return"), Optional(NT("Expression")), T(";")))
  [name |-> <<82, 101, 116, 117, 114, 110, 83, 116, 97, 116, 101, 109, 101,
    110, 116>>,
   body |-> Call("Diagram", <<Call("Sequence", <<Call("T", <<StrLit(<<114, 101,
    116, 117, 114, 110>>)>>), Call("Optional", <<Call("NT", <<StrLit(<<69, 120,
    112, 114, 101, 115, 115, 105, 111, 110>>)>>)>>), Call("T",
    <<StrLit(<<59>>)>>)>>)>>)],
  \* lines 1497-1499: rules.set("ThrowStatement", () =>
  \* Diagram(Sequence(T("throw"), NT("Expression"), T(";")))
  [name |-> <<84, 104, 114, 111, 119, 83, 116, 97, 116, 101, 109, 101, 110,
    116>>,
   body |-> Call("Diagram", <<Call("Sequence", <<Call("T", <<StrLit(<<116, 104,
    114, 111, 119>>)>>), Call("NT", <<StrLit(<<69, 120, 112, 114, 101, 115,
    115, 105, 111, 110>>)>>), Call("T", <<StrLit(<<59>>)>>)>>)>>)],
  \* lines 1501-1503: rules.set("SynchronizedStatement", () =>
  \* Diagram(Sequence(T("synchronized"), T("("), NT("Expression"), T(")"), NT(
  \* "Block")))
  [name |-> <<83, 121, 110, 99, 104, 114, 111, 110, 105, 122, 101, 100, 83,
    116, 97, 116, 101, 109, 101, 110, 116>>,
   body |-> Call("Diagram", <<Call("Sequence", <<Call("T", <<StrLit(<<115, 121,
    110, 99, 104, 114, 111, 110, 105, 122, 101, 100>>)>>), Call("T",
    <<StrLit(<<40>>)>>), Call("NT", <<StrLit(<<69, 120, 112, 114, 101, 115,
    115, 105, 111, 110>>)>>), Call("T", <<StrLit(<<41>>)>>), Call("NT",
    <<StrLit(<<66, 108, 111, 99, 107>>)>>)>>)>>)],
  \* lines 1505-1513: rules.set("TryStatement", () =>
  \* Diagram(Choice(0, Sequence(T("try"), NT("Block"), NT("Catches")),
  \* Sequence(T("try"), NT("Block"), Optional(NT("Catches")), NT("Finally")),
  \* NT("TryWithResourcesStatement")))
  [name |-> <<84, 114, 121, 83, 116, 97, 116, 101, 109, 101, 110, 116>>,
   body |-> Call("Diagram", <<Call("Choice", <<NumLit(0), Call("Sequence",
    <<Call("T", <<StrLit(<<116, 114, 121>>)>>), Call("NT", <<StrLit(<<66, 108,
    111, 99, 107>>)>>), Call("NT", <<StrLit(<<67, 97, 116, 99, 104, 101,
    115>>)>>)>>), Call("Sequence", <<Call("T", <<StrLit(<<116, 114, 121>>)>>),
    Call("NT", <<StrLit(<<66, 108, 111, 99, 107>>)>>), Call("Optional",
    <<Call("NT", <<StrLit(<<67, 97, 116, 99, 104, 101, 115>>)>>)>>), Call("NT",
    <<StrLit(<<70, 105, 110, 97, 108, 108, 121>>)>>)>>), Call("NT",
    <<StrLit(<<84, 114, 121, 87, 105, 116, 104, 82, 101, 115, 111, 117, 114,
    99, 101, 115, 83, 116, 97, 116, 101, 109, 101, 110, 116>>)>>)>>)>>)],
  \* lines 1515-1517: rules.set("Catches", () =>
  \* Diagram(OneOrMore(NT("CatchClause")))
  [name |-> <<67, 97, 116, 99, 104, 101, 115>>,
   body |-> Call("Diagram", <<Call("OneOrMore", <<Call("NT", <<StrLit(<<67, 97,
    116, 99, 104, 67, 108, 97, 117, 115, 101>>)>>)>>)>>)],
  \* lines 1519-1521: rules.set("CatchClause", () =>
  \* Diagram(Sequence(T("catch"), T("("), NT("CatchFormalParameter"), T(")"),
  \* NT("Block")))
  [name |-> <<67, 97, 116, 99, 104, 67, 108, 97, 117, 115, 101>>,
   body |-> Call("Diagram", <<Call("Sequence", <<Call("T", <<StrLit(<<99, 97,
    116, 99, 104>>)>>), Call("T", <<StrLit(<<40>>)>>), Call("NT",
    <<StrLit(<<67, 97, 116, 99, 104, 70, 111, 114, 109, 97, 108, 80, 97, 114,
    97, 109, 101, 116, 101, 114>>)>>), Call("T", <<StrLit(<<41>>)>>),
    Call("NT", <<StrLit(<<66, 108, 111, 99, 107>>)>>)>>)>>)],
  \* lines 1523-1531: rules.set("CatchFormalParameter", () =>
  \* Diagram(Sequence(ZeroOrMore(NT("VariableModifier")), NT("CatchType"), NT(
  \* "VariableDeclaratorId")))
  [name |-> <<67, 97, 116, 99, 104, 70, 111, 114, 109, 97, 108, 80, 97, 114,
    97, 109, 101, 116, 101, 114>>,
   body |-> Call("Diagram", <<Call("Sequence", <<Call("ZeroOrMore",
    <<Call("NT", <<StrLit(<<86, 97, 114, 105, 97, 98, 108, 101, 77, 111, 100,
    105, 102, 105, 101, 114>>)>>)>>), Call("NT", <<StrLit(<<67, 97, 116, 99,
    104, 84, 121, 112, 101>>)>>), Call("NT", <<StrLit(<<86, 97, 114, 105, 97,
    98, 108, 101, 68, 101, 99, 108, 97, 114, 97, 116, 111, 114, 73,
    100>>)>>)>>)>>)],
  \* lines 1533-1540: rules.set("CatchType", () =>
  \* Diagram(Sequence(NT("UnannClassType"), ZeroOrMore(Sequence(T("|"), NT(
  \* "ClassType")))))
  [name |-> <<67, 97, 116, 99, 104, 84, 121, 112, 101>>,
   body |-> Call("Diagram", <<Call("Sequence", <<Call("NT", <<StrLit(<<85, 110,
    97, 110, 110, 67, 108, 97, 115, 115, 84, 121, 112, 101>>)>>),
    Call("ZeroOrMore", <<Call("Sequence", <<Call("T", <<StrLit(<<124>>)>>),
    Call("NT", <<StrLit(<<67, 108, 97, 115, 115, 84, 121, 112,
    101>>)>>)>>)>>)>>)>>)],
  \* lines 1542-1544: rules.set("Finally", () =>
  \* Diagram(Sequence(T("finally"), NT("Block")))
  [name |-> <<70, 105, 110, 97, 108, 108, 121>>,
   body |-> Call("Diagram", <<Call("Sequence", <<Call("T", <<StrLit(<<102, 105,
    110, 97, 108, 108, 121>>)>>), Call("NT", <<StrLit(<<66, 108, 111, 99,
    107>>)>>)>>)>>)],
  \* lines 1546-1556: rules.set("TryWithResourcesStatement", () =>
  \* Diagram(Sequence(T("try"), NT("ResourceSpecification"), NT("Block"),
  \* Optional(NT("Catches")), Optional(NT("Finally"))))
  [name |-> <<84, 114, 121, 87, 105, 116, 104, 82, 101, 115, 111, 117, 114, 99,
    101, 115, 83, 116, 97, 116, 101, 109, 101, 110, 116>>,
   body |-> Call("Diagram", <<Call("Sequence", <<Call("T", <<StrLit(<<116, 114,
    121>>)>>), Call("NT", <<StrLit(<<82, 101, 115, 111, 117, 114, 99, 101, 83,
    112, 101, 99, 105, 102, 105, 99, 97, 116, 105, 111, 110>>)>>), Call("NT",
    <<StrLit(<<66, 108, 111, 99, 107>>)>>), Call("Optional", <<Call("NT",
    <<StrLit(<<67, 97, 116, 99, 104, 101, 115>>)>>)>>), Call("Optional",
    <<Call("NT", <<StrLit(<<70, 105, 110, 97, 108, 108, 121>>)>>)>>)>>)>>)],
  \* lines 1558-1560: rules.set("ResourceSpecification", () =>
  \* Diagram(Sequence(T("("), NT("ResourceList"), Optional(T(";")), T(")")))
  [name |-> <<82, 101, 115, 111, 117, 114, 99, 101, 83, 112, 101, 99, 105, 102,
    105, 99, 97, 116, 105, 111, 110>>,
   body |-> Call("Diagram", <<Call("Sequence", <<Call("T", <<StrLit(<<40>>)>>),
    Call("NT", <<StrLit(<<82, 101, 115, 111, 117, 114, 99, 101, 76, 105, 115,
    116>>)>>), Call("Optional", <<Call("T", <<StrLit(<<59>>)>>)>>), Call("T",
    <<StrLit(<<41>>)>>)>>)>>)],
  \* lines 1562-1569: rules.set("ResourceList", () =>
  \* Diagram(Sequence(NT("Resource"), ZeroOrMore(Sequence(T(";"), NT(
  \* "Resource")))))
  [name |-> <<82, 101, 115, 111, 117, 114, 99, 101, 76, 105, 115, 116>>,
   body |-> Call("Diagram", <<Call("Sequence", <<Call("NT", <<StrLit(<<82, 101,
    115, 111, 117, 114, 99, 101>>)>>), Call("ZeroOrMore", <<Call("Sequence",
    <<Call("T", <<StrLit(<<59>>)>>), Call("NT", <<StrLit(<<82, 101, 115, 111,
    117, 114, 99, 101>>)>>)>>)>>)>>)>>)],
  \* lines 1571-1573: rules.set("Resource", () =>
  \* Diagram(Choice(0, NT("LocalVariableDeclaration"), NT("VariableAccess")))
  [name |-> <<82, 101, 115, 111, 117, 114, 99, 101>>,
   body |-> Call("Diagram", <<Call("Choice", <<NumLit(0), Call("NT",
    <<StrLit(<<76, 111, 99, 97, 108, 86, 97, 114, 105, 97, 98, 108, 101, 68,
    101, 99, 108, 97, 114, 97, 116, 105, 111, 110>>)>>), Call("NT",
    <<StrLit(<<86, 97, 114, 105, 97, 98, 108, 101, 65, 99, 99, 101, 115,
    115>>)>>)>>)>>)],
  \* lines 1575-1577: rules.set("VariableAccess", () =>
  \* Diagram(Choice(0, NT("ExpressionName"), NT("FieldAccess")))
  [name |-> <<86, 97, 114, 105, 97, 98, 108, 101, 65, 99, 99, 101, 115, 115>>,
   body |-> Call("Diagram", <<Call("Choice", <<NumLit(0), Call("NT",
    <<StrLit(<<69, 120, 112, 114, 101, 115, 115, 105, 111, 110, 78, 97, 109,
    101>>)>>), Call("NT", <<StrLit(<<70, 105, 101, 108, 100, 65, 99, 99, 101,
    115, 115>>)>>)>>)>>)],
  \* lines 1579-1581: rules.set("Pattern", () =>
  \* Diagram(Choice(0, NT("TypePattern"), NT("RecordPattern")))
  [name |-> <<80, 97, 116, 116, 101, 114, 110>>,
   body |-> Call("Diagram", <<Call("Choice", <<NumLit(0), Call("NT",
    <<StrLit(<<84, 121, 112, 101, 80, 97, 116, 116, 101, 114, 110>>)>>),
    Call("NT", <<StrLit(<<82, 101, 99, 111, 114, 100, 80, 97, 116, 116, 101,
    114, 110>>)>>)>>)>>)],
  \* lines 1583-1585: rules.set("TypePattern", () =>
  \* Diagram(NT("LocalVariableDeclaration"))
  [name |-> <<84, 121, 112, 101, 80, 97, 116, 116, 101, 114, 110>>,
   body |-> Call("Diagram", <<Call("NT", <<StrLit(<<76, 111, 99, 97, 108, 86,
    97, 114, 105, 97, 98, 108, 101, 68, 101, 99, 108, 97, 114, 97, 116, 105,
    111, 110>>)>>)>>)],
  \* lines 1587-1596: rules.set("RecordPattern", () =>
  \* Diagram(Sequence(NT("ReferenceType"), T("("), Optional(NT(
  \* "ComponentPatternList")), T(")")))
  [name |-> <<82, 101, 99, 111, 114, 100, 80, 97, 116, 116, 101, 114, 110>>,
   body |-> Call("Diagram", <<Call("Sequence", <<Call("NT", <<StrLit(<<82, 101,
    102, 101, 114, 101, 110, 99, 101, 84, 121, 112, 101>>)>>), Call("T",
    <<StrLit(<<40>>)>>), Call("Optional", <<Call("NT", <<StrLit(<<67, 111, 109,
    112, 111, 110, 101, 110, 116, 80, 97, 116, 116, 101, 114, 110, 76, 105,
    115, 116>>)>>)>>), Call("T", <<StrLit(<<41>>)>>)>>)>>)],
  \* lines 1598-1605: rules.set("ComponentPatternList", () =>
  \* Diagram(Sequence(NT("ComponentPattern"), ZeroOrMore(Sequence(T(","), NT(
  \* "ComponentPattern")))))
  [name |-> <<67, 111, 109, 112, 111, 110, 101, 110, 116, 80, 97, 116, 116,
    101, 114, 110, 76, 105, 115, 116>>,
   body |-> Call("Diagram", <<Call("Sequence", <<Call("NT", <<StrLit(<<67, 111,
    109, 112, 111, 110, 101, 110, 116, 80, 97, 116, 116, 101, 114, 110>>)>>),
    Call("ZeroOrMore", <<Call("Sequence", <<Call("T", <<StrLit(<<44>>)>>),
    Call("NT", <<StrLit(<<67, 111, 109, 112, 111, 110, 101, 110, 116, 80, 97,
    116, 116, 101, 114, 110>>)>>)>>)>>)>>)>>)],
  \* lines 1607-1609: rules.set("ComponentPattern", () =>
  \* Diagram(Choice(0, NT("Pattern"), NT("MatchAllPattern")))
  [name |-> <<67, 111, 109, 112, 111, 110, 101, 110, 116, 80, 97, 116, 116,
    101, 114, 110>>,
   body |-> Call("Diagram", <<Call("Choice", <<NumLit(0), Call("NT",
    <<StrLit(<<80, 97, 116, 116, 101, 114, 110>>)>>), Call("NT", <<StrLit(<<77,
    97, 116, 99, 104, 65, 108, 108, 80, 97, 116, 116, 101, 114,
    110>>)>>)>>)>>)],
  \* lines 1611-1613: rules.set("MatchAllPattern", () =>
  \* Diagram(T("_"))
  [name |-> <<77, 97, 116, 99, 104, 65, 108, 108, 80, 97, 116, 116, 101, 114,
    110>>,
   body |-> Call("Diagram", <<Call("T", <<StrLit(<<95>>)>>)>>)],
  \* lines 1617-1619: rules.set("Primary", () =>
  \* Diagram(Choice(0, NT("PrimaryNoNewArray"), NT("ArrayCreationExpression"))
  \* )
  [name |-> <<80, 114, 105, 109, 97, 114, 121>>,
   body |-> Call("Diagram", <<Call("Choice", <<NumLit(0), Call("NT",
    <<StrLit(<<80, 114, 105, 109, 97, 114, 121, 78, 111, 78, 101, 119, 65, 114,
    114, 97, 121>>)>>), Call("NT", <<StrLit(<<65, 114, 114, 97, 121, 67, 114,
    101, 97, 116, 105, 111, 110, 69, 120, 112, 114, 101, 115, 115, 105, 111,
    110>>)>>)>>)>>)],
  \* lines 1621-1636: rules.set("PrimaryNoNewArray", () =>
  \* Diagram(Choice(0, NT("Literal"), NT("ClassLiteral"), T("this"), Sequence(
  \* NT("TypeName"), T("."), T("this")), Sequence(T("("), NT("Expression"), T(
  \* ")")), NT("ClassInstanceCreationExpression"), NT("FieldAccess"), NT(
  \* "ArrayAccess"), NT("MethodInvocation"), NT("MethodReference")))
  [name |-> <<80, 114, 105, 109, 97, 114, 121, 78, 111, 78, 101, 119, 65, 114,
    114, 97, 121>>,
   body |-> Call("Diagram", <<Call("Choice", <<NumLit(0), Call("NT",
    <<StrLit(<<76, 105, 116, 101, 114, 97, 108>>)>>), Call("NT", <<StrLit(<<67,
    108, 97, 115, 115, 76, 105, 116, 101, 114, 97, 108>>)>>), Call("T",
    <<StrLit(<<116, 104, 105, 115>>)>>), Call("Sequence", <<Call("NT",
    <<StrLit(<<84, 121, 112, 101, 78, 97, 109, 101>>)>>), Call("T",
    <<StrLit(<<46>>)>>), Call("T", <<StrLit(<<116, 104, 105, 115>>)>>)>>),
    Call("Sequence", <<Call("T", <<StrLit(<<40>>)>>), Call("NT", <<StrLit(<<69,
    120, 112, 114, 101, 115, 115, 105, 111, 110>>)>>), Call("T",
    <<StrLit(<<41>>)>>)>>), Call("NT", <<StrLit(<<67, 108, 97, 115, 115, 73,
    110, 115, 116, 97, 110, 99, 101, 67, 114, 101, 97, 116, 105, 111, 110, 69,
    120, 112, 114, 101, 115, 115, 105, 111, 110>>)>>), Call("NT",
    <<StrLit(<<70, 105, 101, 108, 100, 65, 99, 99, 101, 115, 115>>)>>),
    Call("NT", <<StrLit(<<65, 114, 114, 97, 121, 65, 99, 99, 101, 115,
    115>>)>>), Call("NT", <<StrLit(<<77, 101, 116, 104, 111, 100, 73, 110, 118,
    111, 99, 97, 116, 105, 111, 110>>)>>), Call("NT", <<StrLit(<<77, 101, 116,
    104, 111, 100, 82, 101, 102, 101, 114, 101, 110, 99, 101>>)>>)>>)>>)],
  \* lines 1638-1647: rules.set("ClassLiteral", () =>
  \* Diagram(Choice(0, Sequence(NT("TypeName"), ZeroOrMore(Sequence(T("["), T(
  \* "]"))), T("."), T("class")), Sequence(NT("NumericType"), ZeroOrMore(
  \* Sequence(T("["), T("]"))), T("."), T("class")), Sequence(T("boolean"),
  \* ZeroOrMore(Sequence(T("["), T("]"))), T("."), T("class")), Sequence(T(
  \* "void"), T("."), T("class"))))
  [name |-> <<67, 108, 97, 115, 115, 76, 105, 116, 101, 114, 97, 108>>,
   body |-> Call("Diagram", <<Call("Choice", <<NumLit(0), Call("Sequence",
    <<Call("NT", <<StrLit(<<84, 121, 112, 101, 78, 97, 109, 101>>)>>),
    Call("ZeroOrMore", <<Call("Sequence", <<Call("T", <<StrLit(<<91>>)>>),
    Call("T", <<StrLit(<<93>>)>>)>>)>>), Call("T", <<StrLit(<<46>>)>>),
    Call("T", <<StrLit(<<99, 108, 97, 115, 115>>)>>)>>), Call("Sequence",
    <<Call("NT", <<StrLit(<<78, 117, 109, 101, 114, 105, 99, 84, 121, 112,
    101>>)>>), Call("ZeroOrMore", <<Call("Sequence", <<Call("T",
    <<StrLit(<<91>>)>>), Call("T", <<StrLit(<<93>>)>>)>>)>>), Call("T",
    <<StrLit(<<46>>)>>), Call("T", <<StrLit(<<99, 108, 97, 115, 115>>)>>)>>),
    Call("Sequence", <<Call("T", <<StrLit(<<98, 111, 111, 108, 101, 97,
    110>>)>>), Call("ZeroOrMore", <<Call("Sequence", <<Call("T",
    <<StrLit(<<91>>)>>), Call("T", <<StrLit(<<93>>)>>)>>)>>), Call("T",
    <<StrLit(<<46>>)>>), Call("T", <<StrLit(<<99, 108, 97, 115, 115>>)>>)>>),
    Call("Sequence", <<Call("T", <<StrLit(<<118, 111, 105, 100>>)>>), Call("T",
    <<StrLit(<<46>>)>>), Call("T", <<StrLit(<<99, 108, 97, 115,
    115>>)>>)>>)>>)>>)],
  \* lines 1649-1657: rules.set("ClassInstanceCreationExpression", () =>
  \* Diagram(Choice(0, NT("UnqualifiedClassInstanceCreationExpression"),
  \* Sequence(NT("ExpressionName"), T("."), NT(
  \* "UnqualifiedClassInstanceCreationExpression")), Sequence(NT("Primary"),
  \* T("."), NT("UnqualifiedClassInstanceCreationExpression"))))
  [name |-> <<67, 108, 97, 115, 115, 73, 110, 115, 116, 97, 110, 99, 101, 67,
    114, 101, 97, 116, 105, 111, 110, 69, 120, 112, 114, 101, 115, 115, 105,
    111, 110>>,
   body |-> Call("Diagram", <<Call("Choice", <<NumLit(0), Call("NT",
    <<StrLit(<<85, 110, 113, 117, 97, 108, 105, 102, 105, 101, 100, 67, 108,
    97, 115, 115, 73, 110, 115, 116, 97, 110, 99, 101, 67, 114, 101, 97, 116,
    105, 111, 110, 69, 120, 112, 114, 101, 115, 115, 105, 111, 110>>)>>),
    Call("Sequence", <<Call("NT", <<StrLit(<<69, 120, 112, 114, 101, 115, 115,
    105, 111, 110, 78, 97, 109, 101>>)>>), Call("T", <<StrLit(<<46>>)>>),
    Call("NT", <<StrLit(<<85, 110, 113, 117, 97, 108, 105, 102, 105, 101, 100,
    67, 108, 97, 115, 115, 73, 110, 115, 116, 97, 110, 99, 101, 67, 114, 101,
    97, 116, 105, 111, 110, 69, 120, 112, 114, 101, 115, 115, 105, 111,
    110>>)>>)>>), Call("Sequence", <<Call("NT", <<StrLit(<<80, 114, 105, 109,
    97, 114, 121>>)>>), Call("T", <<StrLit(<<46>>)>>), Call("NT",
    <<StrLit(<<85, 110, 113, 117, 97, 108, 105, 102, 105, 101, 100, 67, 108,
    97, 115, 115, 73, 110, 115, 116, 97, 110, 99, 101, 67, 114, 101, 97, 116,
    105, 111, 110, 69, 120, 112, 114, 101, 115, 115, 105, 111,
    110>>)>>)>>)>>)>>)],
  \* lines 1659-1671: rules.set("UnqualifiedClassInstanceCreationExpression", () =>
  \* Diagram(Sequence(T("new"), Optional(NT("TypeArguments")), NT(
  \* "ClassOrInterfaceTypeToInstantiate"), T("("), Optional(NT("ArgumentList")
  \* ), T(")"), Optional(NT("ClassBody"))))
  [name |-> <<85, 110, 113, 117, 97, 108, 105, 102, 105, 101, 100, 67, 108, 97,
    115, 115, 73, 110, 115, 116, 97, 110, 99, 101, 67, 114, 101, 97, 116, 105,
    111, 110, 69, 120, 112, 114, 101, 115, 115, 105, 111, 110>>,
   body |-> Call("Diagram", <<Call("Sequence", <<Call("T", <<StrLit(<<110, 101,
    119>>)>>), Call("Optional", <<Call("NT", <<StrLit(<<84, 121, 112, 101, 65,
    114, 103, 117, 109, 101, 110, 116, 115>>)>>)>>), Call("NT", <<StrLit(<<67,
    108, 97, 115, 115, 79, 114, 73, 110, 116, 101, 114, 102, 97, 99, 101, 84,
    121, 112, 101, 84, 111, 73, 110, 115, 116, 97, 110, 116, 105, 97, 116,
    101>>)>>), Call("T", <<StrLit(<<40>>)>>), Call("Optional", <<Call("NT",
    <<StrLit(<<65, 114, 103, 117, 109, 101, 110, 116, 76, 105, 115,
    116>>)>>)>>), Call("T", <<StrLit(<<41>>)>>), Call("Optional", <<Call("NT",
    <<StrLit(<<67, 108, 97, 115, 115, 66, 111, 100, 121>>)>>)>>)>>)>>)],
  \* lines 1673-1682: rules.set("ClassOrInterfaceTypeToInstantiate", () =>
  \* Diagram(Sequence(ZeroOrMore(NT("Annotation")), NT("Identifier"),
  \* ZeroOrMore(Sequence(T("."), ZeroOrMore(NT("Annotation")), NT("Identifier"
  \* ))), Optional(NT("TypeArgumentsOrDiamond"))))
  [name |-> <<67, 108, 97, 115, 115, 79, 114, 73, 110, 116, 101, 114, 102, 97,
    99, 101, 84, 121, 112, 101, 84, 111, 73, 110, 115, 116, 97, 110, 116, 105,
    97, 116, 101>>,
   body |-> Call("Diagram", <<Call("Sequence", <<Call("ZeroOrMore",
    <<Call("NT", <<StrLit(<<65, 110, 110, 111, 116, 97, 116, 105, 111,
    110>>)>>)>>), Call("NT", <<StrLit(<<73, 100, 101, 110, 116, 105, 102, 105,
    101, 114>>)>>), Call("ZeroOrMore", <<Call("Sequence", <<Call("T",
    <<StrLit(<<46>>)>>), Call("ZeroOrMore", <<Call("NT", <<StrLit(<<65, 110,
    110, 111, 116, 97, 116, 105, 111, 110>>)>>)>>), Call("NT", <<StrLit(<<73,
    100, 101, 110, 116, 105, 102, 105, 101, 114>>)>>)>>)>>), Call("Optional",
    <<Call("NT", <<StrLit(<<84, 121, 112, 101, 65, 114, 103, 117, 109, 101,
    110, 116, 115, 79, 114, 68, 105, 97, 109, 111, 110, 100>>)>>)>>)>>)>>)],
  \* lines 1684-1686: rules.set("TypeArgumentsOrDiamond", () =>
  \* Diagram(Choice(0, NT("TypeArguments"), Sequence(T("<"), T(">"))))
  [name |-> <<84, 121, 112, 101, 65, 114, 103, 117, 109, 101, 110, 116, 115,
    79, 114, 68, 105, 97, 109, 111, 110, 100>>,
   body |-> Call("Diagram", <<Call("Choice", <<NumLit(0), Call("NT",
    <<StrLit(<<84, 121, 112, 101, 65, 114, 103, 117, 109, 101, 110, 116,
    115>>)>>), Call("Sequence", <<Call("T", <<StrLit(<<60>>)>>), Call("T",
    <<StrLit(<<62>>)>>)>>)>>)>>)],
  \* lines 1688-1695: rules.set("ArrayCreationExpression", () =>
  \* Diagram(Choice(0, NT("ArrayCreationExpressionWithoutInitializer"), NT(
  \* "ArrayCreationExpressionWithInitializer")))
  [name |-> <<65, 114, 114, 97, 121, 67, 114, 101, 97, 116, 105, 111, 110, 69,
    120, 112, 114, 101, 115, 115, 105, 111, 110>>,
   body |-> Call("Diagram", <<Call("Choice", <<NumLit(0), Call("NT",
    <<StrLit(<<65, 114, 114, 97, 121, 67, 114, 101, 97, 116, 105, 111, 110, 69,
    120, 112, 114, 101, 115, 115, 105, 111, 110, 87, 105, 116, 104, 111, 117,
    116, 73, 110, 105, 116, 105, 97, 108, 105, 122, 101, 114>>)>>), Call("NT",
    <<StrLit(<<65, 114, 114, 97, 121, 67, 114, 101, 97, 116, 105, 111, 110, 69,
    120, 112, 114, 101, 115, 115, 105, 111, 110, 87, 105, 116, 104, 73, 110,
    105, 116, 105, 97, 108, 105, 122, 101, 114>>)>>)>>)>>)],
  \* lines 1697-1704: rules.set("ArrayCreationExpressionWithoutInitializer", () =>
  \* Diagram(Choice(0, Sequence(T("new"), NT("PrimitiveType"), NT("DimExprs"),
  \* Optional(NT("Dims"))), Sequence(T("new"), NT("ClassOrInterfaceType"), NT(
  \* "DimExprs"), Optional(NT("Dims")))))
  [name |-> <<65, 114, 114, 97, 121, 67, 114, 101, 97, 116, 105, 111, 110, 69,
    120, 112, 114, 101, 115, 115, 105, 111, 110, 87, 105, 116, 104, 111, 117,
    116, 73, 110, 105, 116, 105, 97, 108, 105, 122, 101, 114>>,
   body |-> Call("Diagram", <<Call("Choice", <<NumLit(0), Call("Sequence",
    <<Call("T", <<StrLit(<<110, 101, 119>>)>>), Call("NT", <<StrLit(<<80, 114,
    105, 109, 105, 116, 105, 118, 101, 84, 121, 112, 101>>)>>), Call("NT",
    <<StrLit(<<68, 105, 109, 69, 120, 112, 114, 115>>)>>), Call("Optional",
    <<Call("NT", <<StrLit(<<68, 105, 109, 115>>)>>)>>)>>), Call("Sequence",
    <<Call("T", <<StrLit(<<110, 101, 119>>)>>), Call("NT", <<StrLit(<<67, 108,
    97, 115, 115, 79, 114, 73, 110, 116, 101, 114, 102, 97, 99, 101, 84, 121,
    112, 101>>)>>), Call("NT", <<StrLit(<<68, 105, 109, 69, 120, 112, 114,
    115>>)>>), Call("Optional", <<Call("NT", <<StrLit(<<68, 105, 109,
    115>>)>>)>>)>>)>>)>>)],
  \* lines 1706-1713: rules.set("ArrayCreationExpressionWithInitializer", () =>
  \* Diagram(Choice(0, Sequence(T("new"), NT("PrimitiveType"), NT("Dims"), NT(
  \* "ArrayInitializer")), Sequence(T("new"), NT("ClassOrInterfaceType"), NT(
  \* "Dims"), NT("ArrayInitializer"))))
  [name |-> <<65, 114, 114, 97, 121, 67, 114, 101, 97, 116, 105, 111, 110, 69,
    120, 112, 114, 101, 115, 115, 105, 111, 110, 87, 105, 116, 104, 73, 110,
    105, 116, 105, 97, 108, 105, 122, 101, 114>>,
   body |-> Call("Diagram", <<Call("Choice", <<NumLit(0), Call("Sequence",
    <<Call("T", <<StrLit(<<110, 101, 119>>)>>), Call("NT", <<StrLit(<<80, 114,
    105, 109, 105, 116, 105, 118, 101, 84, 121, 112, 101>>)>>), Call("NT",
    <<StrLit(<<68, 105, 109, 115>>)>>), Call("NT", <<StrLit(<<65, 114, 114, 97,
    121, 73, 110, 105, 116, 105, 97, 108, 105, 122, 101, 114>>)>>)>>),
    Call("Sequence", <<Call("T", <<StrLit(<<110, 101, 119>>)>>), Call("NT",
    <<StrLit(<<67, 108, 97, 115, 115, 79, 114, 73, 110, 116, 101, 114, 102, 97,
    99, 101, 84, 121, 112, 101>>)>>), Call("NT", <<StrLit(<<68, 105, 109,
    115>>)>>), Call("NT", <<StrLit(<<65, 114, 114, 97, 121, 73, 110, 105, 116,
    105, 97, 108, 105, 122, 101, 114>>)>>)>>)>>)>>)],
  \* lines 1715-1717: rules.set("DimExprs", () =>
  \* Diagram(OneOrMore(NT("DimExpr")))
  [name |-> <<68, 105, 109, 69, 120, 112, 114, 115>>,
   body |-> Call("Diagram", <<Call("OneOrMore", <<Call("NT", <<StrLit(<<68,
    105, 109, 69, 120, 112, 114>>)>>)>>)>>)],
  \* lines 1719-1721: rules.set("DimExpr", () =>
  \* Diagram(Sequence(ZeroOrMore(NT("Annotation")), T("["), NT("Expression"),
  \* T("]")))
  [name |-> <<68, 105, 109, 69, 120, 112, 114>>,
   body |-> Call("Diagram", <<Call("Sequence", <<Call("ZeroOrMore",
    <<Call("NT", <<StrLit(<<65, 110, 110, 111, 116, 97, 116, 105, 111,
    110>>)>>)>>), Call("T", <<StrLit(<<91>>)>>), Call("NT", <<StrLit(<<69, 120,
    112, 114, 101, 115, 115, 105, 111, 110>>)>>), Call("T",
    <<StrLit(<<93>>)>>)>>)>>)],
  \* lines 1723-1731: rules.set("ArrayAccess", () =>
  \* Diagram(Choice(0, Sequence(NT("ExpressionName"), T("["), NT("Expression"
  \* ), T("]")), Sequence(NT("PrimaryNoNewArray"), T("["), NT("Expression"),
  \* T("]")), Sequence(NT("ArrayCreationExpressionWithInitializer"), T("["),
  \* NT("Expression"), T("]"))))
  [name |-> <<65, 114, 114, 97, 121, 65, 99, 99, 101, 115, 115>>,
   body |-> Call("Diagram", <<Call("Choice", <<NumLit(0), Call("Sequence",
    <<Call("NT", <<StrLit(<<69, 120, 112, 114, 101, 115, 115, 105, 111, 110,
    78, 97, 109, 101>>)>>), Call("T", <<StrLit(<<91>>)>>), Call("NT",
    <<StrLit(<<69, 120, 112, 114, 101, 115, 115, 105, 111, 110>>)>>), Call("T",
    <<StrLit(<<93>>)>>)>>), Call("Sequence", <<Call("NT", <<StrLit(<<80, 114,
    105, 109, 97, 114, 121, 78, 111, 78, 101, 119, 65, 114, 114, 97, 121>>)>>),
    Call("T", <<StrLit(<<91>>)>>), Call("NT", <<StrLit(<<69, 120, 112, 114,
    101, 115, 115, 105, 111, 110>>)>>), Call("T", <<StrLit(<<93>>)>>)>>),
    Call("Sequence", <<Call("NT", <<StrLit(<<65, 114, 114, 97, 121, 67, 114,
    101, 97, 116, 105, 111, 110, 69, 120, 112, 114, 101, 115, 115, 105, 111,
    110, 87, 105, 116, 104, 73, 110, 105, 116, 105, 97, 108, 105, 122, 101,
    114>>)>>), Call("T", <<StrLit(<<91>>)>>), Call("NT", <<StrLit(<<69, 120,
    112, 114, 101, 115, 115, 105, 111, 110>>)>>), Call("T",
    <<StrLit(<<93>>)>>)>>)>>)>>)],
  \* lines 1733-1741: rules.set("FieldAccess", () =>
  \* Diagram(Choice(0, Sequence(NT("Primary"), T("."), NT("Identifier")),
  \* Sequence(T("super"), T("."), NT("Identifier")), Sequence(NT("TypeName"),
  \* T("."), T("super"), T("."), NT("Identifier"))))
  [name |-> <<70, 105, 101, 108, 100, 65, 99, 99, 101, 115, 115>>,
   body |-> Call("Diagram", <<Call("Choice", <<NumLit(0), Call("Sequence",
    <<Call("NT", <<StrLit(<<80, 114, 105, 109, 97, 114, 121>>)>>), Call("T",
    <<StrLit(<<46>>)>>), Call("NT", <<StrLit(<<73, 100, 101, 110, 116, 105,
    102, 105, 101, 114>>)>>)>>), Call("Sequence", <<Call("T", <<StrLit(<<115,
    117, 112, 101, 114>>)>>), Call("T", <<StrLit(<<46>>)>>), Call("NT",
    <<StrLit(<<73, 100, 101, 110, 116, 105, 102, 105, 101, 114>>)>>)>>),
    Call("Sequence", <<Call("NT", <<StrLit(<<84, 121, 112, 101, 78, 97, 109,
    101>>)>>), Call("T", <<StrLit(<<46>>)>>), Call("T", <<StrLit(<<115, 117,
    112, 101, 114>>)>>), Call("T", <<StrLit(<<46>>)>>), Call("NT",
    <<StrLit(<<73, 100, 101, 110, 116, 105, 102, 105, 101, 114>>)>>)>>)>>)>>)],
  \* lines 1743-1754: rules.set("MethodInvocation", () =>
  \* Diagram(Choice(0, Sequence(NT("MethodName"), T("("), Optional(NT(
  \* "ArgumentList")), T(")")), Sequence(NT("TypeName"), T("."), Optional(NT(
  \* "TypeArguments")), NT("Identifier"), T("("), Optional(NT("ArgumentList")
  \* ), T(")")), Sequence(NT("ExpressionName"), T("."), Optional(NT(
  \* "TypeArguments")), NT("Identifier"), T("("), Optional(NT("ArgumentList")
  \* ), T(")")), Sequence(NT("Primary"), T("."), Optional(NT("TypeArguments")
  \* ), NT("Identifier"), T("("), Optional(NT("ArgumentList")), T(")")),
  \* Sequence(T("super"), T("."), Optional(NT("TypeArguments")), NT(
  \* "Identifier"), T("("), Optional(NT("ArgumentList")), T(")")), Sequence(
  \* NT("TypeName"), T("."), T("super"), T("."), Optional(NT("TypeArguments")
  \* ), NT("Identifier"), T("("), Optional(NT("ArgumentList")), T(")"))))
  [name |-> <<77, 101, 116, 104, 111, 100, 73, 110, 118, 111, 99, 97, 116, 105,
    111, 110>>,
   body |-> Call("Diagram", <<Call("Choice", <<NumLit(0), Call("Sequence",
    <<Call("NT", <<StrLit(<<77, 101, 116, 104, 111, 100, 78, 97, 109,
    101>>)>>), Call("T", <<StrLit(<<40>>)>>), Call("Optional", <<Call("NT",
    <<StrLit(<<65, 114, 103, 117, 109, 101, 110, 116, 76, 105, 115,
    116>>)>>)>>), Call("T", <<StrLit(<<41>>)>>)>>), Call("Sequence",
    <<Call("NT", <<StrLit(<<84, 121, 112, 101, 78, 97, 109, 101>>)>>),
    Call("T", <<StrLit(<<46>>)>>), Call("Optional", <<Call("NT", <<StrLit(<<84,
    121, 112, 101, 65, 114, 103, 117, 109, 101, 110, 116, 115>>)>>)>>),
    Call("NT", <<StrLit(<<73, 100, 101, 110, 116, 105, 102, 105, 101,
    114>>)>>), Call("T", <<StrLit(<<40>>)>>), Call("Optional", <<Call("NT",
    <<StrLit(<<65, 114, 103, 117, 109, 101, 110, 116, 76, 105, 115,
    116>>)>>)>>), Call("T", <<StrLit(<<41>>)>>)>>), Call("Sequence",
    <<Call("NT", <<StrLit(<<69, 120, 112, 114, 101, 115, 115, 105, 111, 110,
    78, 97, 109, 101>>)>>), Call("T", <<StrLit(<<46>>)>>), Call("Optional",
    <<Call("NT", <<StrLit(<<84, 121, 112, 101, 65, 114, 103, 117, 109, 101,
    110, 116, 115>>)>>)>>), Call("NT", <<StrLit(<<73, 100, 101, 110, 116, 105,
    102, 105, 101, 114>>)>>), Call("T", <<StrLit(<<40>>)>>), Call("Optional",
    <<Call("NT", <<StrLit(<<65, 114, 103, 117, 109, 101, 110, 116, 76, 105,
    115, 116>>)>>)>>), Call("T", <<StrLit(<<41>>)>>)>>), Call("Sequence",
    <<Call("NT", <<StrLit(<<80, 114, 105, 109, 97, 114, 121>>)>>), Call("T",
    <<StrLit(<<46>>)>>), Call("Optional", <<Call("NT", <<StrLit(<<84, 121, 112,
    101, 65, 114, 103, 117, 109, 101, 110, 116, 115>>)>>)>>), Call("NT",
    <<StrLit(<<73, 100, 101, 110, 116, 105, 102, 105, 101, 114>>)>>), Call("T",
    <<StrLit(<<40>>)>>), Call("Optional", <<Call("NT", <<StrLit(<<65, 114, 103,
    117, 109, 101, 110, 116, 76, 105, 115, 116>>)>>)>>), Call("T",
    <<StrLit(<<41>>)>>)>>), Call("Sequence", <<Call("T", <<StrLit(<<115, 117,
    112, 101, 114>>)>>), Call("T", <<StrLit(<<46>>)>>), Call("Optional",
    <<Call("NT", <<StrLit(<<84, 121, 112, 101, 65, 114, 103, 117, 109, 101,
    110, 116, 115>>)>>)>>), Call("NT", <<StrLit(<<73, 100, 101, 110, 116, 105,
    102, 105, 101, 114>>)>>), Call("T", <<StrLit(<<40>>)>>), Call("Optional",
    <<Call("NT", <<StrLit(<<65, 114, 103, 117, 109, 101, 110, 116, 76, 105,
    115, 116>>)>>)>>), Call("T", <<StrLit(<<41>>)>>)>>), Call("Sequence",
    <<Call("NT", <<StrLit(<<84, 121, 112, 101, 78, 97, 109, 101>>)>>),
    Call("T", <<StrLit(<<46>>)>>), Call("T", <<StrLit(<<115, 117, 112, 101,
    114>>)>>), Call("T", <<StrLit(<<46>>)>>), Call("Optional", <<Call("NT",
    <<StrLit(<<84, 121, 112, 101, 65, 114, 103, 117, 109, 101, 110, 116,
    115>>)>>)>>), Call("NT", <<StrLit(<<73, 100, 101, 110, 116, 105, 102, 105,
    101, 114>>)>>), Call("T", <<StrLit(<<40>>)>>), Call("Optional",
    <<Call("NT", <<StrLit(<<65, 114, 103, 117, 109, 101, 110, 116, 76, 105,
    115, 116>>)>>)>>), Call("T", <<StrLit(<<41>>)>>)>>)>>)>>)],
  \* lines 1756-1763: rules.set("ArgumentList", () =>
  \* Diagram(Sequence(NT("Expression"), ZeroOrMore(Sequence(T(","), NT(
  \* "Expression")))))
  [name |-> <<65, 114, 103, 117, 109, 101, 110, 116, 76, 105, 115, 116>>,
   body |-> Call("Diagram", <<Call("Sequence", <<Call("NT", <<StrLit(<<69, 120,
    112, 114, 101, 115, 115, 105, 111, 110>>)>>), Call("ZeroOrMore",
    <<Call("Sequence", <<Call("T", <<StrLit(<<44>>)>>), Call("NT",
    <<StrLit(<<69, 120, 112, 114, 101, 115, 115, 105, 111,
    110>>)>>)>>)>>)>>)>>)],
  \* lines 1765-1777: rules.set("MethodReference", () =>
  \* Diagram(Choice(0, Sequence(NT("ExpressionName"), T("::"), Optional(NT(
  \* "TypeArguments")), NT("Identifier")), Sequence(NT("Primary"), T("::"),
  \* Optional(NT("TypeArguments")), NT("Identifier")), Sequence(NT(
  \* "ReferenceType"), T("::"), Optional(NT("TypeArguments")), NT("Identifier"
  \* )), Sequence(T("super"), T("::"), Optional(NT("TypeArguments")), NT(
  \* "Identifier")), Sequence(NT("TypeName"), T("."), T("super"), T("::"),
  \* Optional(NT("TypeArguments")), NT("Identifier")), Sequence(NT("ClassType"
  \* ), T("::"), Optional(NT("TypeArguments")), T("new")), Sequence(NT(
  \* "ArrayType"), T("::"), T("new"))))
  [name |-> <<77, 101, 116, 104, 111, 100, 82, 101, 102, 101, 114, 101, 110,
    99, 101>>,
   body |-> Call("Diagram", <<Call("Choice", <<NumLit(0), Call("Sequence",
    <<Call("NT", <<StrLit(<<69, 120, 112, 114, 101, 115, 115, 105, 111, 110,
    78, 97, 109, 101>>)>>), Call("T", <<StrLit(<<58, 58>>)>>), Call("Optional",
    <<Call("NT", <<StrLit(<<84, 121, 112, 101, 65, 114, 103, 117, 109, 101,
    110, 116, 115>>)>>)>>), Call("NT", <<StrLit(<<73, 100, 101, 110, 116, 105,
    102, 105, 101, 114>>)>>)>>), Call("Sequence", <<Call("NT", <<StrLit(<<80,
    114, 105, 109, 97, 114, 121>>)>>), Call("T", <<StrLit(<<58, 58>>)>>),
    Call("Optional", <<Call("NT", <<StrLit(<<84, 121, 112, 101, 65, 114, 103,
    117, 109, 101, 110, 116, 115>>)>>)>>), Call("NT", <<StrLit(<<73, 100, 101,
    110, 116, 105, 102, 105, 101, 114>>)>>)>>), Call("Sequence", <<Call("NT",
    <<StrLit(<<82, 101, 102, 101, 114, 101, 110, 99, 101, 84, 121, 112,
    101>>)>>), Call("T", <<StrLit(<<58, 58>>)>>), Call("Optional", <<Call("NT",
    <<StrLit(<<84, 121, 112, 101, 65, 114, 103, 117, 109, 101, 110, 116,
    115>>)>>)>>), Call("NT", <<StrLit(<<73, 100, 101, 110, 116, 105, 102, 105,
    101, 114>>)>>)>>), Call("Sequence", <<Call("T", <<StrLit(<<115, 117, 112,
    101, 114>>)>>), Call("T", <<StrLit(<<58, 58>>)>>), Call("Optional",
    <<Call("NT", <<StrLit(<<84, 121, 112, 101, 65, 114, 103, 117, 109, 101,
    110, 116, 115>>)>>)>>), Call("NT", <<StrLit(<<73, 100, 101, 110, 116, 105,
    102, 105, 101, 114>>)>>)>>), Call("Sequence", <<Call("NT", <<StrLit(<<84,
    121, 112, 101, 78, 97, 109, 101>>)>>), Call("T", <<StrLit(<<46>>)>>),
    Call("T", <<StrLit(<<115, 117, 112, 101, 114>>)>>), Call("T",
    <<StrLit(<<58, 58>>)>>), Call("Optional", <<Call("NT", <<StrLit(<<84, 121,
    112, 101, 65, 114, 103, 117, 109, 101, 110, 116, 115>>)>>)>>), Call("NT",
    <<StrLit(<<73, 100, 101, 110, 116, 105, 102, 105, 101, 114>>)>>)>>),
    Call("Sequence", <<Call("NT", <<StrLit(<<67, 108, 97, 115, 115, 84, 121,
    112, 101>>)>>), Call("T", <<StrLit(<<58, 58>>)>>), Call("Optional",
    <<Call("NT", <<StrLit(<<84, 121, 112, 101, 65, 114, 103, 117, 109, 101,
    110, 116, 115>>)>>)>>), Call("T", <<StrLit(<<110, 101, 119>>)>>)>>),
    Call("Sequence", <<Call("NT", <<StrLit(<<65, 114, 114, 97, 121, 84, 121,
    112, 101>>)>>), Call("T", <<StrLit(<<58, 58>>)>>), Call("T",
    <<StrLit(<<110, 101, 119>>)>>)>>)>>)>>)],
  \* lines 1779-1781: rules.set("Expression", () =>
  \* Diagram(Choice(0, NT("LambdaExpression"), NT("AssignmentExpression")))
  [name |-> <<69, 120, 112, 114, 101, 115, 115, 105, 111, 110>>,
   body |-> Call("Diagram", <<Call("Choice", <<NumLit(0), Call("NT",
    <<StrLit(<<76, 97, 109, 98, 100, 97, 69, 120, 112, 114, 101, 115, 115, 105,
    111, 110>>)>>), Call("NT", <<StrLit(<<65, 115, 115, 105, 103, 110, 109,
    101, 110, 116, 69, 120, 112, 114, 101, 115, 115, 105, 111,
    110>>)>>)>>)>>)],
  \* lines 1783-1785: rules.set("LambdaExpression", () =>
  \* Diagram(Sequence(NT("LambdaParameters"), T("->"), NT("LambdaBody")))
  [name |-> <<76, 97, 109, 98, 100, 97, 69, 120, 112, 114, 101, 115, 115, 105,
    111, 110>>,
   body |-> Call("Diagram", <<Call("Sequence", <<Call("NT", <<StrLit(<<76, 97,
    109, 98, 100, 97, 80, 97, 114, 97, 109, 101, 116, 101, 114, 115>>)>>),
    Call("T", <<StrLit(<<45, 62>>)>>), Call("NT", <<StrLit(<<76, 97, 109, 98,
    100, 97, 66, 111, 100, 121>>)>>)>>)>>)],
  \* lines 1787-1794: rules.set("LambdaParameters", () =>
  \* Diagram(Choice(0, Sequence(T("("), Optional(NT("LambdaParameterList")),
  \* T(")")), NT("ConciseLambdaParameter")))
  [name |-> <<76, 97, 109, 98, 100, 97, 80, 97, 114, 97, 109, 101, 116, 101,
    114, 115>>,
   body |-> Call("Diagram", <<Call("Choice", <<NumLit(0), Call("Sequence",
    <<Call("T", <<StrLit(<<40>>)>>), Call("Optional", <<Call("NT",
    <<StrLit(<<76, 97, 109, 98, 100, 97, 80, 97, 114, 97, 109, 101, 116, 101,
    114, 76, 105, 115, 116>>)>>)>>), Call("T", <<StrLit(<<41>>)>>)>>),
    Call("NT", <<StrLit(<<67, 111, 110, 99, 105, 115, 101, 76, 97, 109, 98,
    100, 97, 80, 97, 114, 97, 109, 101, 116, 101, 114>>)>>)>>)>>)],
  \* lines 1796-1803: rules.set("LambdaParameterList", () =>
  \* Diagram(Choice(0, Sequence(NT("NormalLambdaParameter"), ZeroOrMore(
  \* Sequence(T(","), NT("NormalLambdaParameter")))), Sequence(NT(
  \* "ConciseLambdaParameter"), ZeroOrMore(Sequence(T(","), NT(
  \* "ConciseLambdaParameter"))))))
  [name |-> <<76, 97, 109, 98, 100, 97, 80, 97, 114, 97, 109, 101, 116, 101,
    114, 76, 105, 115, 116>>,
   body |-> Call("Diagram", <<Call("Choice", <<NumLit(0), Call("Sequence",
    <<Call("NT", <<StrLit(<<78, 111, 114, 109, 97, 108, 76, 97, 109, 98, 100,
    97, 80, 97, 114, 97, 109, 101, 116, 101, 114>>)>>), Call("ZeroOrMore",
    <<Call("Sequence", <<Call("T", <<StrLit(<<44>>)>>), Call("NT",
    <<StrLit(<<78, 111, 114, 109, 97, 108, 76, 97, 109, 98, 100, 97, 80, 97,
    114, 97, 109, 101, 116, 101, 114>>)>>)>>)>>)>>), Call("Sequence",
    <<Call("NT", <<StrLit(<<67, 111, 110, 99, 105, 115, 101, 76, 97, 109, 98,
    100, 97, 80, 97, 114, 97, 109, 101, 116, 101, 114>>)>>), Call("ZeroOrMore",
    <<Call("Sequence", <<Call("T", <<StrLit(<<44>>)>>), Call("NT",
    <<StrLit(<<67, 111, 110, 99, 105, 115, 101, 76, 97, 109, 98, 100, 97, 80,
    97, 114, 97, 109, 101, 116, 101, 114>>)>>)>>)>>)>>)>>)>>)],
  \* lines 1805-1812: rules.set("NormalLambdaParameter", () =>
  \* Diagram(Choice(0, Sequence(ZeroOrMore(NT("VariableModifier")), NT(
  \* "LambdaParameterType"), NT("VariableDeclaratorId")), NT(
  \* "VariableArityParameter")))
  [name |-> <<78, 111, 114, 109, 97, 108, 76, 97, 109, 98, 100, 97, 80, 97,
    114, 97, 109, 101, 116, 101, 114>>,
   body |-> Call("Diagram", <<Call("Choice", <<NumLit(0), Call("Sequence",
    <<Call("ZeroOrMore", <<Call("NT", <<StrLit(<<86, 97, 114, 105, 97, 98, 108,
    101, 77, 111, 100, 105, 102, 105, 101, 114>>)>>)>>), Call("NT",
    <<StrLit(<<76, 97, 109, 98, 100, 97, 80, 97, 114, 97, 109, 101, 116, 101,
    114, 84, 121, 112, 101>>)>>), Call("NT", <<StrLit(<<86, 97, 114, 105, 97,
    98, 108, 101, 68, 101, 99, 108, 97, 114, 97, 116, 111, 114, 73,
    100>>)>>)>>), Call("NT", <<StrLit(<<86, 97, 114, 105, 97, 98, 108, 101, 65,
    114, 105, 116, 121, 80, 97, 114, 97, 109, 101, 116, 101, 114>>)>>)>>)>>)],
  \* lines 1814-1816: rules.set("LambdaParameterType", () =>
  \* Diagram(Choice(0, NT("UnannType"), T("var")))
  [name |-> <<76, 97, 109, 98, 100, 97, 80, 97, 114, 97, 109, 101, 116, 101,
    114, 84, 121, 112, 101>>,
   body |-> Call("Diagram", <<Call("Choice", <<NumLit(0), Call("NT",
    <<StrLit(<<85, 110, 97, 110, 110, 84, 121, 112, 101>>)>>), Call("T",
    <<StrLit(<<118, 97, 114>>)>>)>>)>>)],
  \* lines 1818-1820: rules.set("ConciseLambdaParameter", () =>
  \* Diagram(Choice(0, NT("Identifier"), T("_")))
  [name |-> <<67, 111, 110, 99, 105, 115, 101, 76, 97, 109, 98, 100, 97, 80,
    97, 114, 97, 109, 101, 116, 101, 114>>,
   body |-> Call("Diagram", <<Call("Choice", <<NumLit(0), Call("NT",
    <<StrLit(<<73, 100, 101, 110, 116, 105, 102, 105, 101, 114>>)>>), Call("T",
    <<StrLit(<<95>>)>>)>>)>>)],
  \* lines 1822-1824: rules.set("LambdaBody", () =>
  \* Diagram(Choice(0, NT("Expression"), NT("Block")))
  [name |-> <<76, 97, 109, 98, 100, 97, 66, 111, 100, 121>>,
   body |-> Call("Diagram", <<Call("Choice", <<NumLit(0), Call("NT",
    <<StrLit(<<69, 120, 112, 114, 101, 115, 115, 105, 111, 110>>)>>),
    Call("NT", <<StrLit(<<66, 108, 111, 99, 107>>)>>)>>)>>)],
  \* lines 1826-1828: rules.set("AssignmentExpression", () =>
  \* Diagram(Choice(0, NT("ConditionalExpression"), NT("Assignment")))
  [name |-> <<65, 115, 115, 105, 103, 110, 109, 101, 110, 116, 69, 120, 112,
    114, 101, 115, 115, 105, 111, 110>>,
   body |-> Call("Diagram", <<Call("Choice", <<NumLit(0), Call("NT",
    <<StrLit(<<67, 111, 110, 100, 105, 116, 105, 111, 110, 97, 108, 69, 120,
    112, 114, 101, 115, 115, 105, 111, 110>>)>>), Call("NT", <<StrLit(<<65,
    115, 115, 105, 103, 110, 109, 101, 110, 116>>)>>)>>)>>)],
  \* lines 1830-1832: rules.set("Assignment", () =>
  \* Diagram(Sequence(NT("LeftHandSide"), NT("AssignmentOperator"), NT(
  \* "Expression")))
  [name |-> <<65, 115, 115, 105, 103, 110, 109, 101, 110, 116>>,
   body |-> Call("Diagram", <<Call("Sequence", <<Call("NT", <<StrLit(<<76, 101,
    102, 116, 72, 97, 110, 100, 83, 105, 100, 101>>)>>), Call("NT",
    <<StrLit(<<65, 115, 115, 105, 103, 110, 109, 101, 110, 116, 79, 112, 101,
    114, 97, 116, 111, 114>>)>>), Call("NT", <<StrLit(<<69, 120, 112, 114, 101,
    115, 115, 105, 111, 110>>)>>)>>)>>)],
  \* lines 1834-1836: rules.set("LeftHandSide", () =>
  \* Diagram(Choice(0, NT("ExpressionName"), NT("FieldAccess"), NT(
  \* "ArrayAccess")))
  [name |-> <<76, 101, 102, 116, 72, 97, 110, 100, 83, 105, 100, 101>>,
   body |-> Call("Diagram", <<Call("Choice", <<NumLit(0), Call("NT",
    <<StrLit(<<69, 120, 112, 114, 101, 115, 115, 105, 111, 110, 78, 97, 109,
    101>>)>>), Call("NT", <<StrLit(<<70, 105, 101, 108, 100, 65, 99, 99, 101,
    115, 115>>)>>), Call("NT", <<StrLit(<<65, 114, 114, 97, 121, 65, 99, 99,
    101, 115, 115>>)>>)>>)>>)],
  \* lines 1838-1845: rules.set("AssignmentOperator", () =>
  \* Diagram(Choice(0, T("="), T("*="), T("/="), T("%="), T("+="), T("-="), T(
  \* "<<="), T(">>="), T(">>>="), T("&="), T("^="), T("|=")))
  [name |-> <<65, 115, 115, 105, 103, 110, 109, 101, 110, 116, 79, 112, 101,
    114, 97, 116, 111, 114>>,
   body |-> Call("Diagram", <<Call("Choice", <<NumLit(0), Call("T",
    <<StrLit(<<61>>)>>), Call("T", <<StrLit(<<42, 61>>)>>), Call("T",
    <<StrLit(<<47, 61>>)>>), Call("T", <<StrLit(<<37, 61>>)>>), Call("T",
    <<StrLit(<<43, 61>>)>>), Call("T", <<StrLit(<<45, 61>>)>>), Call("T",
    <<StrLit(<<60, 60, 61>>)>>), Call("T", <<StrLit(<<62, 62, 61>>)>>),
    Call("T", <<StrLit(<<62, 62, 62, 61>>)>>), Call("T", <<StrLit(<<38,
    61>>)>>), Call("T", <<StrLit(<<94, 61>>)>>), Call("T", <<StrLit(<<124,
    61>>)>>)>>)>>)],
  \* lines 1847-1855: rules.set("ConditionalExpression", () =>
  \* Diagram(Choice(0, NT("ConditionalOrExpression"), Sequence(NT(
  \* "ConditionalOrExpression"), T("?"), NT("Expression"), T(":"), NT(
  \* "ConditionalExpression")), Sequence(NT("ConditionalOrExpression"), T("?"
  \* ), NT("Expression"), T(":"), NT("LambdaExpression"))))
  [name |-> <<67, 111, 110, 100, 105, 116, 105, 111, 110, 97, 108, 69, 120,
    112, 114, 101, 115, 115, 105, 111, 110>>,
   body |-> Call("Diagram", <<Call("Choice", <<NumLit(0), Call("NT",
    <<StrLit(<<67, 111, 110, 100, 105, 116, 105, 111, 110, 97, 108, 79, 114,
    69, 120, 112, 114, 101, 115, 115, 105, 111, 110>>)>>), Call("Sequence",
    <<Call("NT", <<StrLit(<<67, 111, 110, 100, 105, 116, 105, 111, 110, 97,
    108, 79, 114, 69, 120, 112, 114, 101, 115, 115, 105, 111, 110>>)>>),
    Call("T", <<StrLit(<<63>>)>>), Call("NT", <<StrLit(<<69, 120, 112, 114,
    101, 115, 115, 105, 111, 110>>)>>), Call("T", <<StrLit(<<58>>)>>),
    Call("NT", <<StrLit(<<67, 111, 110, 100, 105, 116, 105, 111, 110, 97, 108,
    69, 120, 112, 114, 101, 115, 115, 105, 111, 110>>)>>)>>), Call("Sequence",
    <<Call("NT", <<StrLit(<<67, 111, 110, 100, 105, 116, 105, 111, 110, 97,
    108, 79, 114, 69, 120, 112, 114, 101, 115, 115, 105, 111, 110>>)>>),
    Call("T", <<StrLit(<<63>>)>>), Call("NT", <<StrLit(<<69, 120, 112, 114,
    101, 115, 115, 105, 111, 110>>)>>), Call("T", <<StrLit(<<58>>)>>),
    Call("NT", <<StrLit(<<76, 97, 109, 98, 100, 97, 69, 120, 112, 114, 101,
    115, 115, 105, 111, 110>>)>>)>>)>>)>>)],
  \* lines 1865-1867: rules.set("ConditionalOrExpression", () =>
  \* Diagram(chain("ConditionalAndExpression", ["||"]))
  [name |-> <<67, 111, 110, 100, 105, 116, 105, 111, 110, 97, 108, 79, 114, 69,
    120, 112, 114, 101, 115, 115, 105, 111, 110>>,
   body |-> Call("Diagram", <<Call("chain", <<StrLit(<<67, 111, 110, 100, 105,
    116, 105, 111, 110, 97, 108, 65, 110, 100, 69, 120, 112, 114, 101, 115,
    115, 105, 111, 110>>), ArrLit(<<StrLit(<<124, 124>>)>>)>>)>>)],
  \* lines 1869-1871: rules.set("ConditionalAndExpression", () =>
  \* Diagram(chain("InclusiveOrExpression", ["&&"]))
  [name |-> <<67, 111, 110, 100, 105, 116, 105, 111, 110, 97, 108, 65, 110,
    100, 69, 120, 112, 114, 101, 115, 115, 105, 111, 110>>,
   body |-> Call("Diagram", <<Call("chain", <<StrLit(<<73, 110, 99, 108, 117,
    115, 105, 118, 101, 79, 114, 69, 120, 112, 114, 101, 115, 115, 105, 111,
    110>>), ArrLit(<<StrLit(<<38, 38>>)>>)>>)>>)],
  \* lines 1873-1875: rules.set("InclusiveOrExpression", () =>
  \* Diagram(chain("ExclusiveOrExpression", ["|"]))
  [name |-> <<73, 110, 99, 108, 117, 115, 105, 118, 101, 79, 114, 69, 120, 112,
    114, 101, 115, 115, 105, 111, 110>>,
   body |-> Call("Diagram", <<Call("chain", <<StrLit(<<69, 120, 99, 108, 117,
    115, 105, 118, 101, 79, 114, 69, 120, 112, 114, 101, 115, 115, 105, 111,
    110>>), ArrLit(<<StrLit(<<124>>)>>)>>)>>)],
  \* lines 1877-1879: rules.set("ExclusiveOrExpression", () =>
  \* Diagram(chain("AndExpression", ["^"]))
  [name |-> <<69, 120, 99, 108, 117, 115, 105, 118, 101, 79, 114, 69, 120, 112,
    114, 101, 115, 115, 105, 111, 110>>,
   body |-> Call("Diagram", <<Call("chain", <<StrLit(<<65, 110, 100, 69, 120,
    112, 114, 101, 115, 115, 105, 111, 110>>),
    ArrLit(<<StrLit(<<94>>)>>)>>)>>)],
  \* lines 1881-1883: rules.set("AndExpression", () =>
  \* Diagram(chain("EqualityExpression", ["&"]))
  [name |-> <<65, 110, 100, 69, 120, 112, 114, 101, 115, 115, 105, 111, 110>>,
   body |-> Call("Diagram", <<Call("chain", <<StrLit(<<69, 113, 117, 97, 108,
    105, 116, 121, 69, 120, 112, 114, 101, 115, 115, 105, 111, 110>>),
    ArrLit(<<StrLit(<<38>>)>>)>>)>>)],
  \* lines 1885-1887: rules.set("EqualityExpression", () =>
  \* Diagram(chain("RelationalExpression", ["==", "!="]))
  [name |-> <<69, 113, 117, 97, 108, 105, 116, 121, 69, 120, 112, 114, 101,
    115, 115, 105, 111, 110>>,
   body |-> Call("Diagram", <<Call("chain", <<StrLit(<<82, 101, 108, 97, 116,
    105, 111, 110, 97, 108, 69, 120, 112, 114, 101, 115, 115, 105, 111, 110>>),
    ArrLit(<<StrLit(<<61, 61>>), StrLit(<<33, 61>>)>>)>>)>>)],
  \* lines 1889-1896: rules.set("RelationalExpression", () =>
  \* Diagram(Choice(0, chain("ShiftExpression", ["<", ">", "<=", ">="]), NT(
  \* "InstanceofExpression")))
  [name |-> <<82, 101, 108, 97, 116, 105, 111, 110, 97, 108, 69, 120, 112, 114,
    101, 115, 115, 105, 111, 110>>,
   body |-> Call("Diagram", <<Call("Choice", <<NumLit(0), Call("chain",
    <<StrLit(<<83, 104, 105, 102, 116, 69, 120, 112, 114, 101, 115, 115, 105,
    111, 110>>), ArrLit(<<StrLit(<<60>>), StrLit(<<62>>), StrLit(<<60, 61>>),
    StrLit(<<62, 61>>)>>)>>), Call("NT", <<StrLit(<<73, 110, 115, 116, 97, 110,
    99, 101, 111, 102, 69, 120, 112, 114, 101, 115, 115, 105, 111,
    110>>)>>)>>)>>)],
  \* lines 1898-1905: rules.set("InstanceofExpression", () =>
  \* Diagram(Choice(0, Sequence(NT("RelationalExpression"), T("instanceof"),
  \* NT("ReferenceType")), Sequence(NT("RelationalExpression"), T("instanceof"
  \* ), NT("Pattern"))))
  [name |-> <<73, 110, 115, 116, 97, 110, 99, 101, 111, 102, 69, 120, 112, 114,
    101, 115, 115, 105, 111, 110>>,
   body |-> Call("Diagram", <<Call("Choice", <<NumLit(0), Call("Sequence",
    <<Call("NT", <<StrLit(<<82, 101, 108, 97, 116, 105, 111, 110, 97, 108, 69,
    120, 112, 114, 101, 115, 115, 105, 111, 110>>)>>), Call("T",
    <<StrLit(<<105, 110, 115, 116, 97, 110, 99, 101, 111, 102>>)>>), Call("NT",
    <<StrLit(<<82, 101, 102, 101, 114, 101, 110, 99, 101, 84, 121, 112,
    101>>)>>)>>), Call("Sequence", <<Call("NT", <<StrLit(<<82, 101, 108, 97,
    116, 105, 111, 110, 97, 108, 69, 120, 112, 114, 101, 115, 115, 105, 111,
    110>>)>>), Call("T", <<StrLit(<<105, 110, 115, 116, 97, 110, 99, 101, 111,
    102>>)>>), Call("NT", <<StrLit(<<80, 97, 116, 116, 101, 114,
    110>>)>>)>>)>>)>>)],
  \* lines 1907-1909: rules.set("ShiftExpression", () =>
  \* Diagram(chain("AdditiveExpression", ["<<", ">>", ">>>"]))
  [name |-> <<83, 104, 105, 102, 116, 69, 120, 112, 114, 101, 115, 115, 105,
    111, 110>>,
   body |-> Call("Diagram", <<Call("chain", <<StrLit(<<65, 100, 100, 105, 116,
    105, 118, 101, 69, 120, 112, 114, 101, 115, 115, 105, 111, 110>>),
    ArrLit(<<StrLit(<<60, 60>>), StrLit(<<62, 62>>), StrLit(<<62, 62,
    62>>)>>)>>)>>)],
  \* lines 1911-1913: rules.set("AdditiveExpression", () =>
  \* Diagram(chain("MultiplicativeExpression", ["+", "-"]))
  [name |-> <<65, 100, 100, 105, 116, 105, 118, 101, 69, 120, 112, 114, 101,
    115, 115, 105, 111, 110>>,
   body |-> Call("Diagram", <<Call("chain", <<StrLit(<<77, 117, 108, 116, 105,
    112, 108, 105, 99, 97, 116, 105, 118, 101, 69, 120, 112, 114, 101, 115,
    115, 105, 111, 110>>), ArrLit(<<StrLit(<<43>>), StrLit(<<45>>)>>)>>)>>)],
  \* lines 1915-1917: rules.set("MultiplicativeExpression", () =>
  \* Diagram(chain("UnaryExpression", ["*", "/", "%"]))
  [name |-> <<77, 117, 108, 116, 105, 112, 108, 105, 99, 97, 116, 105, 118,
    101, 69, 120, 112, 114, 101, 115, 115, 105, 111, 110>>,
   body |-> Call("Diagram", <<Call("chain", <<StrLit(<<85, 110, 97, 114, 121,
    69, 120, 112, 114, 101, 115, 115, 105, 111, 110>>),
    ArrLit(<<StrLit(<<42>>), StrLit(<<47>>), StrLit(<<37>>)>>)>>)>>)],
  \* lines 1919-1929: rules.set("UnaryExpression", () =>
  \* Diagram(Choice(0, NT("PreIncrementExpression"), NT(
  \* "PreDecrementExpression"), Sequence(T("+"), NT("UnaryExpression")),
  \* Sequence(T("-"), NT("UnaryExpression")), NT("UnaryExpressionNotPlusMinus"
  \* )))
  [name |-> <<85, 110, 97, 114, 121, 69, 120, 112, 114, 101, 115, 115, 105,
    111, 110>>,
   body |-> Call("Diagram", <<Call("Choice", <<NumLit(0), Call("NT",
    <<StrLit(<<80, 114, 101, 73, 110, 99, 114, 101, 109, 101, 110, 116, 69,
    120, 112, 114, 101, 115, 115, 105, 111, 110>>)>>), Call("NT",
    <<StrLit(<<80, 114, 101, 68, 101, 99, 114, 101, 109, 101, 110, 116, 69,
    120, 112, 114, 101, 115, 115, 105, 111, 110>>)>>), Call("Sequence",
    <<Call("T", <<StrLit(<<43>>)>>), Call("NT", <<StrLit(<<85, 110, 97, 114,
    121, 69, 120, 112, 114, 101, 115, 115, 105, 111, 110>>)>>)>>),
    Call("Sequence", <<Call("T", <<StrLit(<<45>>)>>), Call("NT", <<StrLit(<<85,
    110, 97, 114, 121, 69, 120, 112, 114, 101, 115, 115, 105, 111,
    110>>)>>)>>), Call("NT", <<StrLit(<<85, 110, 97, 114, 121, 69, 120, 112,
    114, 101, 115, 115, 105, 111, 110, 78, 111, 116, 80, 108, 117, 115, 77,
    105, 110, 117, 115>>)>>)>>)>>)],
  \* lines 1931-1933: rules.set("PreIncrementExpression", () =>
  \* Diagram(Sequence(T("++"), NT("UnaryExpression")))
  [name |-> <<80, 114, 101, 73, 110, 99, 114, 101, 109, 101, 110, 116, 69, 120,
    112, 114, 101, 115, 115, 105, 111, 110>>,
   body |-> Call("Diagram", <<Call("Sequence", <<Call("T", <<StrLit(<<43,
    43>>)>>), Call("NT", <<StrLit(<<85, 110, 97, 114, 121, 69, 120, 112, 114,
    101, 115, 115, 105, 111, 110>>)>>)>>)>>)],
  \* lines 1935-1937: rules.set("PreDecrementExpression", () =>
  \* Diagram(Sequence(T("--"), NT("UnaryExpression")))
  [name |-> <<80, 114, 101, 68, 101, 99, 114, 101, 109, 101, 110, 116, 69, 120,
    112, 114, 101, 115, 115, 105, 111, 110>>,
   body |-> Call("Diagram", <<Call("Sequence", <<Call("T", <<StrLit(<<45,
    45>>)>>), Call("NT", <<StrLit(<<85, 110, 97, 114, 121, 69, 120, 112, 114,
    101, 115, 115, 105, 111, 110>>)>>)>>)>>)],
  \* lines 1939-1949: rules.set("UnaryExpressionNotPlusMinus", () =>
  \* Diagram(Choice(0, NT("PostfixExpression"), Sequence(T("~"), NT(
  \* "UnaryExpression")), Sequence(T("!"), NT("UnaryExpression")), NT(
  \* "CastExpression"), NT("SwitchExpression")))
  [name |-> <<85, 110, 97, 114, 121, 69, 120, 112, 114, 101, 115, 115, 105,
    111, 110, 78, 111, 116, 80, 108, 117, 115, 77, 105, 110, 117, 115>>,
   body |-> Call("Diagram", <<Call("Choice", <<NumLit(0), Call("NT",
    <<StrLit(<<80, 111, 115, 116, 102, 105, 120, 69, 120, 112, 114, 101, 115,
    115, 105, 111, 110>>)>>), Call("Sequence", <<Call("T",
    <<StrLit(<<126>>)>>), Call("NT", <<StrLit(<<85, 110, 97, 114, 121, 69, 120,
    112, 114, 101, 115, 115, 105, 111, 110>>)>>)>>), Call("Sequence",
    <<Call("T", <<StrLit(<<33>>)>>), Call("NT", <<StrLit(<<85, 110, 97, 114,
    121, 69, 120, 112, 114, 101, 115, 115, 105, 111, 110>>)>>)>>), Call("NT",
    <<StrLit(<<67, 97, 115, 116, 69, 120, 112, 114, 101, 115, 115, 105, 111,
    110>>)>>), Call("NT", <<StrLit(<<83, 119, 105, 116, 99, 104, 69, 120, 112,
    114, 101, 115, 115, 105, 111, 110>>)>>)>>)>>)],
  \* lines 1951-1960: rules.set("PostfixExpression", () =>
  \* Diagram(Choice(0, NT("Primary"), NT("ExpressionName"), NT(
  \* "PostIncrementExpression"), NT("PostDecrementExpression")))
  [name |-> <<80, 111, 115, 116, 102, 105, 120, 69, 120, 112, 114, 101, 115,
    115, 105, 111, 110>>,
   body |-> Call("Diagram", <<Call("Choice", <<NumLit(0), Call("NT",
    <<StrLit(<<80, 114, 105, 109, 97, 114, 121>>)>>), Call("NT", <<StrLit(<<69,
    120, 112, 114, 101, 115, 115, 105, 111, 110, 78, 97, 109, 101>>)>>),
    Call("NT", <<StrLit(<<80, 111, 115, 116, 73, 110, 99, 114, 101, 109, 101,
    110, 116, 69, 120, 112, 114, 101, 115, 115, 105, 111, 110>>)>>), Call("NT",
    <<StrLit(<<80, 111, 115, 116, 68, 101, 99, 114, 101, 109, 101, 110, 116,
    69, 120, 112, 114, 101, 115, 115, 105, 111, 110>>)>>)>>)>>)],
  \* lines 1962-1964: rules.set("PostIncrementExpression", () =>
  \* Diagram(Sequence(NT("PostfixExpression"), T("++")))
  [name |-> <<80, 111, 115, 116, 73, 110, 99, 114, 101, 109, 101, 110, 116, 69,
    120, 112, 114, 101, 115, 115, 105, 111, 110>>,
   body |-> Call("Diagram", <<Call("Sequence", <<Call("NT", <<StrLit(<<80, 111,
    115, 116, 102, 105, 120, 69, 120, 112, 114, 101, 115, 115, 105, 111,
    110>>)>>), Call("T", <<StrLit(<<43, 43>>)>>)>>)>>)],
  \* lines 1966-1968: rules.set("PostDecrementExpression", () =>
  \* Diagram(Sequence(NT("PostfixExpression"), T("--")))
  [name |-> <<80, 111, 115, 116, 68, 101, 99, 114, 101, 109, 101, 110, 116, 69,
    120, 112, 114, 101, 115, 115, 105, 111, 110>>,
   body |-> Call("Diagram", <<Call("Sequence", <<Call("NT", <<StrLit(<<80, 111,
    115, 116, 102, 105, 120, 69, 120, 112, 114, 101, 115, 115, 105, 111,
    110>>)>>), Call("T", <<StrLit(<<45, 45>>)>>)>>)>>)],
  \* lines 1970-1978: rules.set("CastExpression", () =>
  \* Diagram(Choice(0, Sequence(T("("), NT("PrimitiveType"), T(")"), NT(
  \* "UnaryExpression")), Sequence(T("("), NT("ReferenceType"), ZeroOrMore(NT(
  \* "AdditionalBound")), T(")"), NT("UnaryExpressionNotPlusMinus")),
  \* Sequence(T("("), NT("ReferenceType"), ZeroOrMore(NT("AdditionalBound")),
  \* T(")"), NT("LambdaExpression"))))
  [name |-> <<67, 97, 115, 116, 69, 120, 112, 114, 101, 115, 115, 105, 111,
    110>>,
   body |-> Call("Diagram", <<Call("Choice", <<NumLit(0), Call("Sequence",
    <<Call("T", <<StrLit(<<40>>)>>), Call("NT", <<StrLit(<<80, 114, 105, 109,
    105, 116, 105, 118, 101, 84, 121, 112, 101>>)>>), Call("T",
    <<StrLit(<<41>>)>>), Call("NT", <<StrLit(<<85, 110, 97, 114, 121, 69, 120,
    112, 114, 101, 115, 115, 105, 111, 110>>)>>)>>), Call("Sequence",
    <<Call("T", <<StrLit(<<40>>)>>), Call("NT", <<StrLit(<<82, 101, 102, 101,
    114, 101, 110, 99, 101, 84, 121, 112, 101>>)>>), Call("ZeroOrMore",
    <<Call("NT", <<StrLit(<<65, 100, 100, 105, 116, 105, 111, 110, 97, 108, 66,
    111, 117, 110, 100>>)>>)>>), Call("T", <<StrLit(<<41>>)>>), Call("NT",
    <<StrLit(<<85, 110, 97, 114, 121, 69, 120, 112, 114, 101, 115, 115, 105,
    111, 110, 78, 111, 116, 80, 108, 117, 115, 77, 105, 110, 117, 115>>)>>)>>),
    Call("Sequence", <<Call("T", <<StrLit(<<40>>)>>), Call("NT", <<StrLit(<<82,
    101, 102, 101, 114, 101, 110, 99, 101, 84, 121, 112, 101>>)>>),
    Call("ZeroOrMore", <<Call("NT", <<StrLit(<<65, 100, 100, 105, 116, 105,
    111, 110, 97, 108, 66, 111, 117, 110, 100>>)>>)>>), Call("T",
    <<StrLit(<<41>>)>>), Call("NT", <<StrLit(<<76, 97, 109, 98, 100, 97, 69,
    120, 112, 114, 101, 115, 115, 105, 111, 110>>)>>)>>)>>)>>)],
  \* lines 1980-1982: rules.set("SwitchExpression", () =>
  \* Diagram(Sequence(T("switch"), T("("), NT("Expression"), T(")"), NT(
  \* "SwitchBlock")))
  [name |-> <<83, 119, 105, 116, 99, 104, 69, 120, 112, 114, 101, 115, 115,
    105, 111, 110>>,
   body |-> Call("Diagram", <<Call("Sequence", <<Call("T", <<StrLit(<<115, 119,
    105, 116, 99, 104>>)>>), Call("T", <<StrLit(<<40>>)>>), Call("NT",
    <<StrLit(<<69, 120, 112, 114, 101, 115, 115, 105, 111, 110>>)>>), Call("T",
    <<StrLit(<<41>>)>>), Call("NT", <<StrLit(<<83, 119, 105, 116, 99, 104, 66,
    108, 111, 99, 107>>)>>)>>)>>)]
>>

\* the value of an expression of javaGrammar.ts
RECURSIVE EvalLegacy(_)
EvalLegacy(e) ==
  LET args == [i \in 1..Len(e.a) |-> EvalLegacy(e.a[i])]
  IN CASE e.h = "string" -> Lit(Str(e.s))
       [] e.h = "number" -> Lit(Num(e.n))
       [] e.h = "Diagram" -> LDiagram(args)
       [] e.h = "Sequence" -> LSequence(args)
       [] e.h = "Choice" -> LChoice(args)
       [] e.h = "Optional" -> LOptional(args)
       [] e.h = "OneOrMore" -> LOneOrMore(args)
       [] e.h = "ZeroOrMore" -> LZeroOrMore(args)
       [] e.h = "Stack" -> LStack(args)
       [] e.h = "Comment" -> LComment(args)
       [] e.h = "T" -> LT(e.a[1].s)
       [] e.h = "NT" -> LNT(e.a[1].s)
       [] e.h = "chain" ->
            chain(e.a[1].s, [i \in 1..Len(e.a[2].a) |-> e.a[2].a[i].s])

FactoryLegacy(id) == EvalLegacy(Body(RuleSetLegacy, id))

\* the rules the model registers when it renders
Registered == {sIdentifier, sIdentifierChars, sConditionalOrExpression}

\* the registry after module load: each key bound to its factory
LoadedRules == [n \in Registered |-> n]

\* java25Grammar.ts: factory ? factory() : undefined
createRuleDiagram(name) ==
  IF name \in DOMAIN rules25
    THEN Factory25(rules25[name])
    ELSE Lit(Undefined)

\* a placeholder that is a bare Comment
createRuleDiagramLegacy_BareComment(name) ==
  IF name \notin DOMAIN rulesLegacy
    THEN LComment(<<Lit(Str(NO_FACTORY_FOR \o name))>>)
    ELSE FactoryLegacy(rulesLegacy[name])

\* javaGrammar.ts: Diagram(Comment(`No factory defined for ${name}`))
createRuleDiagramLegacy(name) ==
  IF name \notin DOMAIN rulesLegacy
    THEN LDiagram(<<LComment(<<Lit(Str(NO_FACTORY_FOR \o name))>>)>>)
    ELSE FactoryLegacy(rulesLegacy[name])

(***************************************************************************)
(* The EBNF store (ebnfDefinitions.ts)                                     *)
(***************************************************************************)
\* "constructor"
sConstructor == <<99, 111, 110, 115, 116, 114, 117, 99, 116, 111, 114>>

\* "Identifier:\n    IdentifierChars but not a ReservedKeyword or BooleanLiteral or NullLiteral"
EBNF_Identifier == <<73, 100, 101, 110, 116, 105, 102, 105, 101, 114, 58, 10, 32, 32, 32, 32, 73, 100, 101, 110, 116, 105, 102, 105, 101, 114, 67, 104, 97, 114, 115, 32, 98, 117, 116, 32, 110, 111, 116, 32, 97, 32, 82, 101, 115, 101, 114, 118, 101, 100, 75, 101, 121, 119, 111, 114, 100, 32, 111, 114, 32, 66, 111, 111, 108, 101, 97, 110, 76, 105, 116, 101, 114, 97, 108, 32, 111, 114, 32, 78, 117, 108, 108, 76, 105, 116, 101, 114, 97, 108>>

\* "IdentifierChars:\n    JavaLetter {JavaLetterOrDigit}"
EBNF_IdentifierChars == <<73, 100, 101, 110, 116, 105, 102, 105, 101, 114, 67, 104, 97, 114, 115, 58, 10, 32, 32, 32, 32, 74, 97, 118, 97, 76, 101, 116, 116, 101, 114, 32, 123, 74, 97, 118, 97, 76, 101, 116, 116, 101, 114, 79, 114, 68, 105, 103, 105, 116, 125>>

\* "ConditionalOrExpression:\n    ConditionalAndExpression\n    ConditionalOrExpression || ConditionalAndExpression"
EBNF_ConditionalOrExpression == <<67, 111, 110, 100, 105, 116, 105, 111, 110, 97, 108, 79, 114, 69, 120, 112, 114, 101, 115, 115, 105, 111, 110, 58, 10, 32, 32, 32, 32, 67, 111, 110, 100, 105, 116, 105, 111, 110, 97, 108, 65, 110, 100, 69, 120, 112, 114, 101, 115, 115, 105, 111, 110, 10, 32, 32, 32, 32, 67, 111, 110, 100, 105, 116, 105, 111, 110, 97, 108, 79, 114, 69, 120, 112, 114, 101, 115, 115, 105, 111, 110, 32, 124, 124, 32, 67, 111, 110, 100, 105, 116, 105, 111, 110, 97, 108, 65, 110, 100, 69, 120, 112, 114, 101, 115, 115, 105, 111, 110>>

\* the own properties of the object literal, for the rules the model registers
EBNF_DEFINITIONS ==
  [n \in Registered |->
     CASE n = sIdentifier -> Str(EBNF_Identifier)
       [] n = sIdentifierChars -> Str(EBNF_IdentifierChars)
       [] n = sConditionalOrExpression -> Str(EBNF_ConditionalOrExpression)]

\* a function object
Fn(name) == [t |-> "function", name |-> name]

\* what an object literal inherits from Object.prototype (of its members,
\* the one the model looks up)
ObjectPrototype == [n \in {sConstructor} |-> Fn("Object")]

\* obj[name] of an object literal: an own property, else an inherited one,
\* else undefined
GetProperty(own, name) ==
  IF name \in DOMAIN own THEN own[name]
  ELSE IF name \in DOMAIN ObjectPrototype THEN ObjectPrototype[name]
  ELSE Undefined

\* return EBNF_DEFINITIONS[name]
getEbnfDefinition(name) == GetProperty(EBNF_DEFINITIONS, name)

\* Object.keys(EBNF_DEFINITIONS)
getEbnfRuleNames == DOMAIN EBNF_DEFINITIONS

(***************************************************************************)
(* The SVG serializer                                                      *)
(***************************************************************************)
\* typeof diagram.toSVG === "function"
HasToSVG(v) == v.t = "object" /\ v.kind \notin {"Error", "Element"}
               /\ v.svg # "absent"

\* typeof diagram.toString === "function"
HasToString(v) ==
  v.t # "object" \/ (v.kind \notin {"Error", "Element"} /\ v.str # "absent")

\* svg && typeof svg === "object" && "nodeType" in svg
IsNode(v) == v.t = "object" /\ v.kind = "Element"

\* the try block with XMLSerializer preferred to outerHTML
TryBody_XmlFirst(diagram) ==
  IF HasToSVG(diagram)
    THEN LET r == ToSVG(diagram)
         IN IF ~r.ok THEN r
            ELSE IF r.val.t = "string" THEN r
            ELSE IF IsNode(r.val) THEN After(r.calls, XMLSerialize(r.val))
            ELSE Ok(Str(UNEXPECTED_VALUE), r.calls)
  ELSE IF HasToString(diagram)
    THEN LET r == ToStringOf(diagram)
         IN IF r.ok THEN Ok(Str(ToStr(r.val)), r.calls) ELSE r
  ELSE Ok(Str(NOT_SUPPORTED), <<>>)

\* the body of the try block
TryBody(diagram) ==
  IF HasToSVG(diagram)
    THEN LET r == ToSVG(diagram)
         IN IF ~r.ok THEN r
            ELSE IF r.val.t = "string" THEN r
            ELSE IF IsNode(r.val)
              THEN IF ~Nullish(r.val.outerHTML)
                     THEN Ok(r.val.outerHTML, r.calls)
                     ELSE After(r.calls, XMLSerialize(r.val))
            ELSE Ok(Str(UNEXPECTED_VALUE), r.calls)
  ELSE IF HasToString(diagram)
    THEN LET r == ToStringOf(diagram)
         IN IF r.ok THEN Ok(Str(ToStr(r.val)), r.calls) ELSE r
  ELSE Ok(Str(NOT_SUPPORTED), <<>>)

\* `<!-- Render error: ${e?.message ?? String(e)} -->`
RenderError_NoMessage(e) == Str(RENDER_ERROR_OPEN \o COMMENT_CLOSE)

RenderError(e) ==
  Str(RENDER_ERROR_OPEN
      \o (IF e.t = "object" THEN e.message ELSE ToStr(e))
      \o COMMENT_CLOSE)

diagramToSvgString_NoGuard(diagram) ==
  IF Nullish(diagram)
    THEN Ok(RenderError(Err("TypeError", CANNOT_READ_TOSVG)), <<>>)
    ELSE LET r == TryBody(diagram)
         IN IF r.ok THEN r ELSE Ok(RenderError(r.val), r.calls)

diagramToSvgString(diagram) ==
  IF ~Truthy(diagram) THEN Ok(Str(EMPTY_DIAGRAM), <<>>)
  ELSE LET r == TryBody(diagram)
       IN IF r.ok THEN r ELSE Ok(RenderError(r.val), r.calls)

\* RuleDiagram.tsx: the useMemo body
RuleDiagram(name) ==
  LET diagram == createRuleDiagram(name)
  IN IF diagram.ok
       THEN After(diagram.calls, diagramToSvgString(diagram.val))
       ELSE diagram

\* the legacy RuleDiagram component
RuleDiagramLegacy(name) ==
  LET diagram == createRuleDiagramLegacy(name)
  IN IF diagram.ok
       THEN After(diagram.calls, diagramToSvgString(diagram.val))
       ELSE diagram

(***************************************************************************)
(* Coverage verifier                                                       *)
(***************************************************************************)
\* "A", "AB", "a": a prefix pair and an upper/lower-case pair
VNames == { <<65>>, <<65, 66>>, <<97>> }

\* a definition file: whether readFileSync succeeds, and the names the
\* extractor's pattern matches in it, in file order
Files == [readable : BOOLEAN, matches : SeqsUpTo(VNames, MaxFileLen)]

\* new Set() filled by rules.add(match[1]): first occurrences, in order
SetOf(matches) ==
  LET first(i) == \A j \in 1..(i - 1) : matches[j] # matches[i]
      kept == SelectSeq([i \in 1..Len(matches) |-> i], first)
  IN [k \in 1..Len(kept) |-> matches[kept[k]]]

extractDiagramRules(file) == SetOf(file.matches)

extractEbnfRules(file) == SetOf(file.matches)

RECURSIVE Insert(_, _)
Insert(x, sorted) ==
  IF sorted = <<>> THEN <<x>>
  ELSE IF StrLess(x, Head(sorted)) THEN <<x>> \o sorted
       ELSE <<Head(sorted)>> \o Insert(x, Tail(sorted))

\* the list left in file order
Sort_FileOrder(xs) == xs

\* Array.prototype.sort with no comparator
RECURSIVE Sort(_)
Sort(xs) == IF xs = <<>> THEN <<>> ELSE Insert(Head(xs), Sort(Tail(xs)))

\* [...xs].filter(r => !ys.has(r)).sort(); SelectSeq is Array.prototype.filter
Missing_Intersect(xs, ys) ==
  LET absent(r) == r \in Range(ys) IN Sort(SelectSeq(xs, absent))

Missing(xs, ys) ==
  LET absent(r) == r \notin Range(ys) IN Sort(SelectSeq(xs, absent))

Ev(tag, arg) == [tag |-> tag, arg |-> arg]

Tags(log) == { log[i].tag : i \in 1..Len(log) }

\* console.log('Checking grammar coverage...')
Start ==
  /\ vpc = "start"
  /\ out' = Append(out, Ev("banner", <<>>))
  /\ vpc' = "readGrammar"
  /\ UNCHANGED <<grammarFile, ebnfFile, reads, diagramRules, ebnfRules,
                 missingEbnf, missingDiagram, hasErrors, exitCode>>
  /\ UNCHANGED <<renderVars, serializeVars, chainVars, appVars>>

\* catch (err) { console.error(...); process.exit(1); }
ReadFailed_NoExit(which, next) ==
  /\ out' = Append(out, Ev("readError", which))
  /\ vpc' = next
  /\ UNCHANGED exitCode

ReadFailed(which, next) ==
  /\ out' = Append(out, Ev("readError", which))
  /\ exitCode' = 1
  /\ vpc' = "exited"

\* the names taken from the loaded grammar module instead of its text
ReadGrammar_Import ==
  /\ vpc = "readGrammar"
  /\ reads' = Append(reads, "grammar")
  /\ diagramRules' = extractDiagramRules(grammarFile)
  /\ renders' = Append(renders, [reg |-> "java25", name |-> sIdentifier,
                                 res |-> RuleDiagram(sIdentifier),
                                 ebnf |-> Undefined, ebnfShown |-> FALSE])
  /\ out' = Append(out, Ev("diagramCount", <<Len(diagramRules')>>))
  /\ vpc' = "readEbnf"
  /\ UNCHANGED <<grammarFile, ebnfFile, ebnfRules, missingEbnf,
                 missingDiagram, hasErrors, exitCode>>
  /\ UNCHANGED <<rules25, rulesLegacy, lib, runtime, crashed, lookups,
                 allocated, queried>>
  /\ UNCHANGED <<serializeVars, chainVars, appVars>>

ReadGrammar ==
  /\ vpc = "readGrammar"
  /\ reads' = Append(reads, "grammar")
  /\ IF grammarFile.readable
       THEN /\ diagramRules' = extractDiagramRules(grammarFile)
            /\ out' = Append(out, Ev("diagramCount", <<Len(diagramRules')>>))
            /\ vpc' = "readEbnf"
            /\ UNCHANGED exitCode
       ELSE /\ ReadFailed(<<1>>, "readEbnf")
            /\ UNCHANGED diagramRules
  /\ UNCHANGED <<grammarFile, ebnfFile, ebnfRules, missingEbnf,
                 missingDiagram, hasErrors>>
  /\ UNCHANGED <<renderVars, serializeVars, chainVars, appVars>>

ReadEbnf ==
  /\ vpc = "readEbnf"
  /\ reads' = Append(reads, "ebnf")
  /\ IF ebnfFile.readable
       THEN /\ ebnfRules' = extractEbnfRules(ebnfFile)
            /\ out' = Append(out, Ev("ebnfCount", <<Len(ebnfRules')>>))
            /\ vpc' = "compare"
            /\ UNCHANGED exitCode
       ELSE /\ ReadFailed(<<2>>, "compare")
            /\ UNCHANGED ebnfRules
  /\ UNCHANGED <<grammarFile, ebnfFile, diagramRules, missingEbnf,
                 missingDiagram, hasErrors>>
  /\ UNCHANGED <<renderVars, serializeVars, chainVars, appVars>>

\* console.log(''); the two difference lists; let hasErrors = false
Compare ==
  /\ vpc = "compare"
  /\ out' = Append(out, Ev("blank", <<>>))
  /\ missingEbnf' = Missing(diagramRules, ebnfRules)
  /\ missingDiagram' = Missing(ebnfRules, diagramRules)
  /\ hasErrors' = FALSE
  /\ vpc' = "reportEbnf"
  /\ UNCHANGED <<grammarFile, ebnfFile, reads, diagramRules, ebnfRules,
                 exitCode>>
  /\ UNCHANGED <<renderVars, serializeVars, chainVars, appVars>>

Items(names) == [i \in 1..Len(names) |-> Ev("item", names[i])]

\* the names printed without their header
ReportList_ItemsOnly(list, header) ==
  IF Len(list) > 0
    THEN /\ hasErrors' = TRUE
         /\ out' = out \o Items(list) \o <<Ev("blank", <<>>)>>
    ELSE UNCHANGED <<hasErrors, out>>

\* if (list.length > 0) { hasErrors = true; header; one line per name; '' }
ReportList(list, header) ==
  IF Len(list) > 0
    THEN /\ hasErrors' = TRUE
         /\ out' = out \o <<Ev(header, <<>>)>> \o Items(list)
                       \o <<Ev("blank", <<>>)>>
    ELSE UNCHANGED <<hasErrors, out>>

ReportEbnf ==
  /\ vpc = "reportEbnf"
  /\ ReportList(missingEbnf, "missingEbnfHeader")
  /\ vpc' = "reportDiagram"
  /\ UNCHANGED <<grammarFile, ebnfFile, reads, diagramRules, ebnfRules,
                 missingEbnf, missingDiagram, exitCode>>
  /\ UNCHANGED <<renderVars, serializeVars, chainVars, appVars>>

ReportDiagram_Silent ==
  /\ vpc = "reportDiagram"
  /\ vpc' = "verdict"
  /\ UNCHANGED <<grammarFile, ebnfFile, reads, diagramRules, ebnfRules,
                 missingEbnf, missingDiagram, exitCode, hasErrors, out>>
  /\ UNCHANGED <<renderVars, serializeVars, chainVars, appVars>>

ReportDiagram ==
  /\ vpc = "reportDiagram"
  /\ ReportList(missingDiagram, "missingDiagramHeader")
  /\ vpc' = "verdict"
  /\ UNCHANGED <<grammarFile, ebnfFile, reads, diagramRules, ebnfRules,
                 missingEbnf, missingDiagram, exitCode>>
  /\ UNCHANGED <<renderVars, serializeVars, chainVars, appVars>>

\* process.exit(1) returning to its caller: PASSED follows FAILED
Verdict_FallThrough ==
  /\ vpc = "verdict"
  /\ IF hasErrors
       THEN /\ out' = out \o <<Ev("failed", <<>>), Ev("passed", <<>>)>>
            /\ exitCode' = 0
       ELSE /\ out' = Append(out, Ev("passed", <<>>))
            /\ exitCode' = 0
  /\ vpc' = "exited"
  /\ UNCHANGED <<grammarFile, ebnfFile, reads, diagramRules, ebnfRules,
                 missingEbnf, missingDiagram, hasErrors>>
  /\ UNCHANGED <<renderVars, serializeVars, chainVars, appVars>>

\* if (hasErrors) { FAILED; process.exit(1) }  PASSED; process.exit(0)
Verdict ==
  /\ vpc = "verdict"
  /\ IF hasErrors
       THEN /\ out' = Append(out, Ev("failed", <<>>))
            /\ exitCode' = 1
       ELSE /\ out' = Append(out, Ev("passed", <<>>))
            /\ exitCode' = 0
  /\ vpc' = "exited"
  /\ UNCHANGED <<grammarFile, ebnfFile, reads, diagramRules, ebnfRules,
                 missingEbnf, missingDiagram, hasErrors>>
  /\ UNCHANGED <<renderVars, serializeVars, chainVars, appVars>>

(***************************************************************************)
(* Rendering rules                                                         *)
(***************************************************************************)
RenderNames == Registered \cup {sNoSuchRule, sEmpty, sConstructor}

Runtimes == [xmlSerializer : BOOLEAN]

\* what one RuleDiagram shows: the markup (or the exception that leaves it)
\* and, in the Java 25 component, the EBNF block {ebnf && (<details>...)}
Rendered(reg, name, res) ==
  LET ebnf == IF reg = "java25" THEN getEbnfDefinition(name) ELSE Undefined
  IN [reg |-> reg, name |-> name, res |-> res,
      ebnf |-> ebnf, ebnfShown |-> Truthy(ebnf)]

\* the page keeps the two most recent renders
Latest(rs, r) == IF Len(rs) < 2 THEN Append(rs, r) ELSE <<rs[2], r>>

\* <RuleDiagram name={name} /> of the Java 25 App.  An exception that leaves
\* the component is caught by nothing, and React unmounts the page.
RenderRule25_Consume(name) ==
  /\ ~crashed
  /\ renders' = Latest(renders, Rendered("java25", name, RuleDiagram(name)))
  /\ crashed' = ~renders'[Len(renders')].res.ok
  /\ rules25' = [n \in DOMAIN rules25 \ {name} |-> rules25[n]]
  /\ UNCHANGED <<rulesLegacy, lib, runtime, lookups, allocated, queried>>
  /\ UNCHANGED <<verifierVars, serializeVars, chainVars, appVars>>

RenderRule25(name) ==
  /\ ~crashed
  /\ renders' = Latest(renders, Rendered("java25", name, RuleDiagram(name)))
  /\ crashed' = ~renders'[Len(renders')].res.ok
  /\ UNCHANGED <<rules25, rulesLegacy, lib, runtime, lookups, allocated,
                 queried>>
  /\ UNCHANGED <<verifierVars, serializeVars, chainVars, appVars>>

\* <RuleDiagram name={name} /> of the legacy App
RenderRuleLegacy(name) ==
  /\ ~crashed
  /\ renders' = Latest(renders,
                       Rendered("legacy", name, RuleDiagramLegacy(name)))
  /\ crashed' = ~renders'[Len(renders')].res.ok
  /\ UNCHANGED <<rules25, rulesLegacy, lib, runtime, lookups, allocated,
                 queried>>
  /\ UNCHANGED <<verifierVars, serializeVars, chainVars, appVars>>

(***************************************************************************)
(* Lookups: the trees createRuleDiagram returns, with their nodes' identity *)
(***************************************************************************)
\* the constructor invocations of an evaluation that returned an object: a
\* bare call of a factory function, a new of a class
Constructed(r) ==
  Len(SelectSeq(r.calls,
                LAMBDA c : c.op = (IF lib.shape = "function" THEN "call"
                                                             ELSE "new")))

\* createRuleDiagram(name): every object the factory constructs is new, so
\* the k-th object of this call is object number allocated + k
LookedUp(name, r, first, last) ==
  [name |-> name, ok |-> r.ok, root |-> r.val, first |-> first, last |-> last]

\* a registry that keeps the tree it built for a name
Lookup_Memoized(name) ==
  /\ Len(lookups) < MaxLookups
  /\ LET r == createRuleDiagram(name)
         hit == { i \in 1..Len(lookups) : lookups[i].name = name }
     IN IF hit # {}
          THEN /\ lookups' = Append(lookups, lookups[CHOOSE i \in hit : TRUE])
               /\ UNCHANGED allocated
          ELSE /\ lookups' = Append(lookups,
                                    LookedUp(name, r, allocated + 1,
                                             allocated + Constructed(r)))
               /\ allocated' = allocated + Constructed(r)
  /\ UNCHANGED <<rules25, rulesLegacy, lib, runtime, renders, crashed,
                 queried>>
  /\ UNCHANGED <<verifierVars, serializeVars, chainVars, appVars>>

Lookup(name) ==
  /\ Len(lookups) < MaxLookups
  /\ LET r == createRuleDiagram(name)
     IN /\ lookups' = Append(lookups,
                             LookedUp(name, r, allocated + 1,
                                      allocated + Constructed(r)))
        /\ allocated' = allocated + Constructed(r)
  /\ UNCHANGED <<rules25, rulesLegacy, lib, runtime, renders, crashed,
                 queried>>
  /\ UNCHANGED <<verifierVars, serializeVars, chainVars, appVars>>

\* the capability with every constructor working
SoundLibs == [shape : Shapes, broken : {"none"}, svg : {"string"}]

(***************************************************************************)
(* The exported operations of the registries, called in any order          *)
(***************************************************************************)
Queried(op, name, res) == [op |-> op, name |-> name, res |-> res]

NoQuery == Queried("none", <<>>, Lit(Undefined))

\* javaGrammar.ts: return rules.get(name)
getRuleFactory(name) ==
  IF name \in DOMAIN rulesLegacy THEN Fn(rulesLegacy[name]) ELSE Undefined

\* java25Grammar.ts: Array.from(rules.keys())
getDiagramRuleNames == [t |-> "array", items |-> DOMAIN rules25]

\* a lookup that drops the entry it served
CallCreateRuleDiagram_Evict(name) ==
  /\ queried' = Queried("createRuleDiagram", name, createRuleDiagram(name))
  /\ rules25' = [n \in DOMAIN rules25 \ {name} |-> rules25[n]]
  /\ UNCHANGED <<rulesLegacy, lib, runtime, renders, crashed, lookups,
                 allocated>>
  /\ UNCHANGED <<verifierVars, serializeVars, chainVars, appVars>>

CallCreateRuleDiagram(name) ==
  /\ queried' = Queried("createRuleDiagram", name, createRuleDiagram(name))
  /\ UNCHANGED <<rules25, rulesLegacy, lib, runtime, renders, crashed,
                 lookups, allocated>>
  /\ UNCHANGED <<verifierVars, serializeVars, chainVars, appVars>>

CallCreateRuleDiagramLegacy(name) ==
  /\ queried' = Queried("createRuleDiagramLegacy", name,
                        createRuleDiagramLegacy(name))
  /\ UNCHANGED <<rules25, rulesLegacy, lib, runtime, renders, crashed,
                 lookups, allocated>>
  /\ UNCHANGED <<verifierVars, serializeVars, chainVars, appVars>>

CallGetRuleFactory(name) ==
  /\ queried' = Queried("getRuleFactory", name, Lit(getRuleFactory(name)))
  /\ UNCHANGED <<rules25, rulesLegacy, lib, runtime, renders, crashed,
                 lookups, allocated>>
  /\ UNCHANGED <<verifierVars, serializeVars, chainVars, appVars>>

CallGetDiagramRuleNames ==
  /\ queried' = Queried("getDiagramRuleNames", <<>>, Lit(getDiagramRuleNames))
  /\ UNCHANGED <<rules25, rulesLegacy, lib, runtime, renders, crashed,
                 lookups, allocated>>
  /\ UNCHANGED <<verifierVars, serializeVars, chainVars, appVars>>

(***************************************************************************)
(* Direct use of the serializer                                            *)
(***************************************************************************)
Falsy == {Undefined, Null, Bool(FALSE), Num(0), Str(<<>>)}

Payloads == {<<>>, <<Str(sOrOr)>>}

SerializerInputs ==
  Falsy \cup {Bool(TRUE), Num(5), Str(sEmpty)}
        \cup { Obj("Terminal", p, svg, str) :
                 p \in Payloads, svg \in SvgModes, str \in StrModes }

NoCall == [called |-> FALSE, input |-> Undefined, res |-> Lit(Undefined)]

\* diagramToSvgString(v)
Serialize(v) ==
  /\ direct' = [called |-> TRUE, input |-> v, res |-> diagramToSvgString(v)]
  /\ UNCHANGED <<verifierVars, renderVars, chainVars, appVars>>

(***************************************************************************)
(* The App: sections, filter query, expanded sections                      *)
(***************************************************************************)
\* String.prototype.toLowerCase on one code unit
LowerChar(c) == IF c >= 65 /\ c <= 90 THEN c + 32 ELSE c

toLowerCase(s) == [i \in 1..Len(s) |-> LowerChar(s[i])]

\* the white space and line terminators String.prototype.trim strips
WhiteSpace == {9, 10, 11, 12, 13, 32, 160, 5760, 8232, 8233, 8239, 8287,
               12288, 65279} \cup (8192..8202)

RECURSIVE trimStart(_)
trimStart(s) ==
  IF s # <<>> /\ Head(s) \in WhiteSpace THEN trimStart(Tail(s)) ELSE s

RECURSIVE trimEnd(_)
trimEnd(s) ==
  IF s # <<>> /\ s[Len(s)] \in WhiteSpace
    THEN trimEnd(SubSeq(s, 1, Len(s) - 1))
    ELSE s

trim(s) == trimEnd(trimStart(s))

\* the first sections of SECTION_ORDER
SECTION_ORDER == <<"lexical", "types">>

Sections == Range(SECTION_ORDER)

\* the titles of these sections: "\u00A73 Lexical Structure", ...
SECTION_TITLES ==
  [s \in Sections |->
     IF s = "lexical"
       THEN <<167, 51, 32, 76, 101, 120, 105, 99, 97, 108, 32, 83, 116, 114, 117,
              99, 116, 117, 114, 101>>
       ELSE <<167, 52, 32, 84, 121, 112, 101, 115, 44, 32, 86, 97, 108, 117,
              101, 115, 44, 32, 97, 110, 100, 32, 86, 97, 114, 105, 97, 98,
              108, 101, 115>>]

\* App.tsx: filterNames, with the query it closes over
filterNames_CaseSensitive(q0, names) ==
  LET q == trim(q0)
      match(n) == Contains(n, q)
  IN IF q = <<>> THEN names ELSE SelectSeq(names, match)

filterNames(q0, names) ==
  LET q == toLowerCase(trim(q0))
      match(n) == Contains(toLowerCase(n), q)
  IN IF q = <<>> THEN names ELSE SelectSeq(names, match)

\* for (const s of SECTION_ORDER) out[s] = filterNames(SECTION_RULES[s])
filteredBySection == [s \in Sections |-> filterNames(query, sectionRules[s])]

\* query.trim().length > 0
hasFilterQuery == Len(trim(query)) > 0

\* const ruleCount = filteredBySection[s].length
ruleCount(s) == Len(filteredBySection[s])

\* expansion that follows the set alone
isExpanded_SetOnly(s) == s \in expandedSections

\* hasFilterQuery ? ruleCount > 0 : expandedSections.has(s)
isExpanded(s) ==
  IF hasFilterQuery THEN ruleCount(s) > 0 ELSE s \in expandedSections

\* the section is rendered at all: not (hasFilterQuery && ruleCount === 0)
SectionRendered(s) == ~(hasFilterQuery /\ ruleCount(s) = 0)

\* {isExpanded && (<RuleList names={filteredBySection[s]} />)}
RuleListRendered(s) == SectionRendered(s) /\ isExpanded(s)

\* "Ab", "b", "Ba"
AppNames == { <<65, 98>>, <<98>>, <<66, 97>> }

\* "A", "b", " "
QueryChars == {65, 98, 32}

Queries == SeqsUpTo(QueryChars, MaxQueryLen)

\* a filter that narrows the index itself
SetQuery_InPlace(q) ==
  /\ query' = q
  /\ q # query
  /\ sectionRules' = [s \in Sections |-> filterNames(q, sectionRules[s])]
  /\ interacted' = TRUE
  /\ UNCHANGED <<sectionOrder, sectionTitles, expandedSections>>
  /\ UNCHANGED <<verifierVars, renderVars, serializeVars, chainVars>>

\* onChange={(e) => setQuery(e.target.value)}
SetQuery(q) ==
  /\ query' = q
  /\ q # query
  /\ interacted' = TRUE
  /\ UNCHANGED <<sectionRules, sectionOrder, sectionTitles, expandedSections>>
  /\ UNCHANGED <<verifierVars, renderVars, serializeVars, chainVars>>

\* toggleSection(sectionId)
ToggleSection(s) ==
  /\ expandedSections' = IF s \in expandedSections
                           THEN expandedSections \ {s}
                           ELSE expandedSections \cup {s}
  /\ interacted' = TRUE
  /\ UNCHANGED <<sectionRules, sectionOrder, sectionTitles, query>>
  /\ UNCHANGED <<verifierVars, renderVars, serializeVars, chainVars>>

\* expandAll
ExpandAll ==
  /\ expandedSections' = Range(sectionOrder)
  /\ expandedSections # Range(sectionOrder)
  /\ interacted' = TRUE
  /\ UNCHANGED <<sectionRules, sectionOrder, sectionTitles, query>>
  /\ UNCHANGED <<verifierVars, renderVars, serializeVars, chainVars>>

\* collapseAll
CollapseAll ==
  /\ expandedSections' = {}
  /\ expandedSections # {}
  /\ interacted' = TRUE
  /\ UNCHANGED <<sectionRules, sectionOrder, sectionTitles, query>>
  /\ UNCHANGED <<verifierVars, renderVars, serializeVars, chainVars>>

(***************************************************************************)
(* The precedence-chain helper applied to an input                         *)
(***************************************************************************)
\* "AndExpression"-like bases and operators: "E", "F"; "+", "-", "<<"
Bases == { <<69>>, <<70>> }

Operators == { <<43>>, <<45>>, <<60, 60>> }

NoResult == Lit(Undefined)

\* chain(base, ops)
ApplyChain ==
  /\ chainOut = NoResult
  /\ chainOut' = chain(chainIn.base, chainIn.ops)
  /\ UNCHANGED <<chainIn, adapterCall>>
  /\ UNCHANGED <<verifierVars, renderVars, serializeVars, appVars>>

(***************************************************************************)
(* One wrapper of an adapter applied to one argument                       *)
(***************************************************************************)
\* the ten shorthand helpers of java25Grammar.ts, by the constructor they wrap
Helper25(kind, text) ==
  CASE kind = "Diagram" -> D(<<Lit(Str(text))>>)
    [] kind = "Sequence" -> Seq_(<<Lit(Str(text))>>)
    [] kind = "Choice" -> Ch(<<Lit(Str(text))>>)
    [] kind = "Optional" -> Opt(<<Lit(Str(text))>>)
    [] kind = "OneOrMore" -> OOM(<<Lit(Str(text))>>)
    [] kind = "ZeroOrMore" -> ZOM(<<Lit(Str(text))>>)
    [] kind = "Stack" -> Stk(<<Lit(Str(text))>>)
    [] kind = "Comment" -> Cmt(text)
    [] kind = "Terminal" -> T(text)
    [] kind = "NonTerminal" -> NT(text)

\* the ten wrapped primitives of javaGrammar.ts
HelperLegacy(kind, text) ==
  CASE kind = "Diagram" -> LDiagram(<<Lit(Str(text))>>)
    [] kind = "Sequence" -> LSequence(<<Lit(Str(text))>>)
    [] kind = "Choice" -> LChoice(<<Lit(Str(text))>>)
    [] kind = "Optional" -> LOptional(<<Lit(Str(text))>>)
    [] kind = "OneOrMore" -> LOneOrMore(<<Lit(Str(text))>>)
    [] kind = "ZeroOrMore" -> LZeroOrMore(<<Lit(Str(text))>>)
    [] kind = "Stack" -> LStack(<<Lit(Str(text))>>)
    [] kind = "Comment" -> LComment(<<Lit(Str(text))>>)
    [] kind = "Terminal" -> LTerminal(<<Lit(Str(text))>>)
    [] kind = "NonTerminal" -> LNonTerminal(<<Lit(Str(text))>>)

Adapters == {"rr", "callOrNew"}

\* the capability with any one constructor rejecting its arguments
AdapterLibs == [shape : Shapes, broken : Kinds \cup {"none"}, svg : {"string"}]

NoAdapterCall ==
  [called |-> FALSE, adapter |-> "rr", kind |-> "Diagram", res |-> Lit(Undefined)]

ApplyAdapter(adapter, kind) ==
  /\ ~adapterCall.called
  /\ adapterCall' =
       [called |-> TRUE, adapter |-> adapter, kind |-> kind,
        res |-> IF adapter = "rr" THEN Helper25(kind, sOrOr)
                                  ELSE HelperLegacy(kind, sOrOr)]
  /\ UNCHANGED <<chainIn, chainOut>>
  /\ UNCHANGED <<verifierVars, renderVars, serializeVars, appVars>>

(***************************************************************************)
(* The repository's own definition files, as the verifier's patterns read  *)
(* them: the names matched, in file order                                  *)
(***************************************************************************)
\* java25Grammar.ts: the first arguments of the rules.set( calls
RepoDiagramKeys == <<
  <<73, 100, 101, 110, 116, 105, 102, 105, 101, 114>>,  \* Identifier
  <<73, 100, 101, 110, 116, 105, 102, 105, 101, 114, 67, 104, 97, 114, 115>>,  \* IdentifierChars
  <<74, 97, 118, 97, 76, 101, 116, 116, 101, 114>>,  \* JavaLetter
  <<74, 97, 118, 97, 76, 101, 116, 116, 101, 114, 79, 114, 68, 105, 103, 105, 116>>,  \* JavaLetterOrDigit
  <<84, 121, 112, 101, 73, 100, 101, 110, 116, 105, 102, 105, 101, 114>>,  \* TypeIdentifier
  <<85, 110, 113, 117, 97, 108, 105, 102, 105, 101, 100, 77, 101, 116, 104, 111, 100, 73, 100, 101, 110, 116, 105, 102, 105, 101, 114>>,  \* UnqualifiedMethodIdentifier
  <<76, 105, 116, 101, 114, 97, 108>>,  \* Literal
  <<84, 121, 112, 101>>,  \* Type
  <<80, 114, 105, 109, 105, 116, 105, 118, 101, 84, 121, 112, 101>>,  \* PrimitiveType
  <<78, 117, 109, 101, 114, 105, 99, 84, 121, 112, 101>>,  \* NumericType
  <<73, 110, 116, 101, 103, 114, 97, 108, 84, 121, 112, 101>>,  \* IntegralType
  <<70, 108, 111, 97, 116, 105, 110, 103, 80, 111, 105, 110, 116, 84, 121, 112, 101>>,  \* FloatingPointType
  <<82, 101, 102, 101, 114, 101, 110, 99, 101, 84, 121, 112, 101>>,  \* ReferenceType
  <<67, 108, 97, 115, 115, 79, 114, 73, 110, 116, 101, 114, 102, 97, 99, 101, 84, 121, 112, 101>>,  \* ClassOrInterfaceType
  <<67, 108, 97, 115, 115, 84, 121, 112, 101>>,  \* ClassType
  <<73, 110, 116, 101, 114, 102, 97, 99, 101, 84, 121, 112, 101>>,  \* InterfaceType
  <<84, 121, 112, 101, 86, 97, 114, 105, 97, 98, 108, 101>>,  \* TypeVariable
  <<65, 114, 114, 97, 121, 84, 121, 112, 101>>,  \* ArrayType
  <<68, 105, 109, 115>>,  \* Dims
  <<84, 121, 112, 101, 80, 97, 114, 97, 109, 101, 116, 101, 114>>,  \* TypeParameter
  <<84, 121, 112, 101, 80, 97, 114, 97, 109, 101, 116, 101, 114, 77, 111, 100, 105, 102, 105, 101, 114>>,  \* TypeParameterModifier
  <<84, 121, 112, 101, 66, 111, 117, 110, 100>>,  \* TypeBound
  <<65, 100, 100, 105, 116, 105, 111, 110, 97, 108, 66, 111, 117, 110, 100>>,  \* AdditionalBound
  <<84, 121, 112, 101, 65, 114, 103, 117, 109, 101, 110, 116, 115>>,  \* TypeArguments
  <<84, 121, 112, 101, 65, 114, 103, 117, 109, 101, 110, 116, 76, 105, 115, 116>>,  \* TypeArgumentList
  <<84, 121, 112, 101, 65, 114, 103, 117, 109, 101, 110, 116>>,  \* TypeArgument
  <<87, 105, 108, 100, 99, 97, 114, 100>>,  \* Wildcard
  <<87, 105, 108, 100, 99, 97, 114, 100, 66, 111, 117, 110, 100, 115>>,  \* WildcardBounds
  <<77, 111, 100, 117, 108, 101, 78, 97, 109, 101>>,  \* ModuleName
  <<80, 97, 99, 107, 97, 103, 101, 78, 97, 109, 101>>,  \* PackageName
  <<84, 121, 112, 101, 78, 97, 109, 101>>,  \* TypeName
  <<69, 120, 112, 114, 101, 115, 115, 105, 111, 110, 78, 97, 109, 101>>,  \* ExpressionName
  <<77, 101, 116, 104, 111, 100, 78, 97, 109, 101>>,  \* MethodName
  <<80, 97, 99, 107, 97, 103, 101, 79, 114, 84, 121, 112, 101, 78, 97, 109, 101>>,  \* PackageOrTypeName
  <<65, 109, 98, 105, 103, 117, 111, 117, 115, 78, 97, 109, 101>>,  \* AmbiguousName
  <<67, 111, 109, 112, 105, 108, 97, 116, 105, 111, 110, 85, 110, 105, 116>>,  \* CompilationUnit
  <<79, 114, 100, 105, 110, 97, 114, 121, 67, 111, 109, 112, 105, 108, 97, 116, 105, 111, 110, 85, 110, 105, 116>>,  \* OrdinaryCompilationUnit
  <<77, 111, 100, 117, 108, 97, 114, 67, 111, 109, 112, 105, 108, 97, 116, 105, 111, 110, 85, 110, 105, 116>>,  \* ModularCompilationUnit
  <<80, 97, 99, 107, 97, 103, 101, 68, 101, 99, 108, 97, 114, 97, 116, 105, 111, 110>>,  \* PackageDeclaration
  <<80, 97, 99, 107, 97, 103, 101, 77, 111, 100, 105, 102, 105, 101, 114>>,  \* PackageModifier
  <<73, 109, 112, 111, 114, 116, 68, 101, 99, 108, 97, 114, 97, 116, 105, 111, 110>>,  \* ImportDeclaration
  <<83, 105, 110, 103, 108, 101, 84, 121, 112, 101, 73, 109, 112, 111, 114, 116, 68, 101, 99, 108, 97, 114, 97, 116, 105, 111, 110>>,  \* SingleTypeImportDeclaration
  <<84, 121, 112, 101, 73, 109, 112, 111, 114, 116, 79, 110, 68, 101, 109, 97, 110, 100, 68, 101, 99, 108, 97, 114, 97, 116, 105, 111, 110>>,  \* TypeImportOnDemandDeclaration
  <<83, 105, 110, 103, 108, 101, 83, 116, 97, 116, 105, 99, 73, 109, 112, 111, 114, 116, 68, 101, 99, 108, 97, 114, 97, 116, 105, 111, 110>>,  \* SingleStaticImportDeclaration
  <<83, 116, 97, 116, 105, 99, 73, 109, 112, 111, 114, 116, 79, 110, 68, 101, 109, 97, 110, 100, 68, 101, 99, 108, 97, 114, 97, 116, 105, 111, 110>>,  \* StaticImportOnDemandDeclaration
  <<83, 105, 110, 103, 108, 101, 77, 111, 100, 117, 108, 101, 73, 109, 112, 111, 114, 116, 68, 101, 99, 108, 97, 114, 97, 116, 105, 111, 110>>,  \* SingleModuleImportDeclaration
  <<84, 111, 112, 76, 101, 118, 101, 108, 67, 108, 97, 115, 115, 79, 114, 73, 110, 116, 101, 114, 102, 97, 99, 101, 68, 101, 99, 108, 97, 114, 97, 116, 105, 111, 110>>,  \* TopLevelClassOrInterfaceDeclaration
  <<77, 111, 100, 117, 108, 101, 68, 101, 99, 108, 97, 114, 97, 116, 105, 111, 110>>,  \* ModuleDeclaration
  <<77, 111, 100, 117, 108, 101, 68, 105, 114, 101, 99, 116, 105, 118, 101>>,  \* ModuleDirective
  <<82, 101, 113, 117, 105, 114, 101, 115, 77, 111, 100, 105, 102, 105, 101, 114>>,  \* RequiresModifier
  <<67, 108, 97, 115, 115, 68, 101, 99, 108, 97, 114, 97, 116, 105, 111, 110>>,  \* ClassDeclaration
  <<78, 111, 114, 109, 97, 108, 67, 108, 97, 115, 115, 68, 101, 99, 108, 97, 114, 97, 116, 105, 111, 110>>,  \* NormalClassDeclaration
  <<67, 108, 97, 115, 115, 77, 111, 100, 105, 102, 105, 101, 114>>,  \* ClassModifier
  <<84, 121, 112, 101, 80, 97, 114, 97, 109, 101, 116, 101, 114, 115>>,  \* TypeParameters
  <<84, 121, 112, 101, 80, 97, 114, 97, 109, 101, 116, 101, 114, 76, 105, 115, 116>>,  \* TypeParameterList
  <<67, 108, 97, 115, 115, 69, 120, 116, 101, 110, 100, 115>>,  \* ClassExtends
  <<67, 108, 97, 115, 115, 73, 109, 112, 108, 101, 109, 101, 110, 116, 115>>,  \* ClassImplements
  <<73, 110, 116, 101, 114, 102, 97, 99, 101, 84, 121, 112, 101, 76, 105, 115, 116>>,  \* InterfaceTypeList
  <<67, 108, 97, 115, 115, 80, 101, 114, 109, 105, 116, 115>>,  \* ClassPermits
  <<67, 108, 97, 115, 115, 66, 111, 100, 121>>,  \* ClassBody
  <<67, 108, 97, 115, 115, 66, 111, 100, 121, 68, 101, 99, 108, 97, 114, 97, 116, 105, 111, 110>>,  \* ClassBodyDeclaration
  <<67, 108, 97, 115, 115, 77, 101, 109, 98, 101, 114, 68, 101, 99, 108, 97, 114, 97, 116, 105, 111, 110>>,  \* ClassMemberDeclaration
  <<70, 105, 101, 108, 100, 68, 101, 99, 108, 97, 114, 97, 116, 105, 111, 110>>,  \* FieldDeclaration
  <<70, 105, 101, 108, 100, 77, 111, 100, 105, 102, 105, 101, 114>>,  \* FieldModifier
  <<86, 97, 114, 105, 97, 98, 108, 101, 68, 101, 99, 108, 97, 114, 97, 116, 111, 114, 76, 105, 115, 116>>,  \* VariableDeclaratorList
  <<86, 97, 114, 105, 97, 98, 108, 101, 68, 101, 99, 108, 97, 114, 97, 116, 111, 114>>,  \* VariableDeclarator
  <<86, 97, 114, 105, 97, 98, 108, 101, 68, 101, 99, 108, 97, 114, 97, 116, 111, 114, 73, 100>>,  \* VariableDeclaratorId
  <<86, 97, 114, 105, 97, 98, 108, 101, 73, 110, 105, 116, 105, 97, 108, 105, 122, 101, 114>>,  \* VariableInitializer
  <<85, 110, 97, 110, 110, 84, 121, 112, 101>>,  \* UnannType
  <<85, 110, 97, 110, 110, 80, 114, 105, 109, 105, 116, 105, 118, 101, 84, 121, 112, 101>>,  \* UnannPrimitiveType
  <<85, 110, 97, 110, 110, 82, 101, 102, 101, 114, 101, 110, 99, 101, 84, 121, 112, 101>>,  \* UnannReferenceType
  <<85, 110, 97, 110, 110, 67, 108, 97, 115, 115, 79, 114, 73, 110, 116, 101, 114, 102, 97, 99, 101, 84, 121, 112, 101>>,  \* UnannClassOrInterfaceType
  <<85, 110, 97, 110, 110, 67, 108, 97, 115, 115, 84, 121, 112, 101>>,  \* UnannClassType
  <<85, 110, 97, 110, 110, 73, 110, 116, 101, 114, 102, 97, 99, 101, 84, 121, 112, 101>>,  \* UnannInterfaceType
  <<85, 110, 97, 110, 110, 84, 121, 112, 101, 86, 97, 114, 105, 97, 98, 108, 101>>,  \* UnannTypeVariable
  <<85, 110, 97, 110, 110, 65, 114, 114, 97, 121, 84, 121, 112, 101>>,  \* UnannArrayType
  <<77, 101, 116, 104, 111, 100, 68, 101, 99, 108, 97, 114, 97, 116, 105, 111, 110>>,  \* MethodDeclaration
  <<77, 101, 116, 104, 111, 100, 77, 111, 100, 105, 102, 105, 101, 114>>,  \* MethodModifier
  <<77, 101, 116, 104, 111, 100, 72, 101, 97, 100, 101, 114>>,  \* MethodHeader
  <<82, 101, 115, 117, 108, 116>>,  \* Result
  <<77, 101, 116, 104, 111, 100, 68, 101, 99, 108, 97, 114, 97, 116, 111, 114>>,  \* MethodDeclarator
  <<82, 101, 99, 101, 105, 118, 101, 114, 80, 97, 114, 97, 109, 101, 116, 101, 114>>,  \* ReceiverParameter
  <<70, 111, 114, 109, 97, 108, 80, 97, 114, 97, 109, 101, 116, 101, 114, 76, 105, 115, 116>>,  \* FormalParameterList
  <<70, 111, 114, 109, 97, 108, 80, 97, 114, 97, 109, 101, 116, 101, 114>>,  \* FormalParameter
  <<86, 97, 114, 105, 97, 98, 108, 101, 65, 114, 105, 116, 121, 80, 97, 114, 97, 109, 101, 116, 101, 114>>,  \* VariableArityParameter
  <<86, 97, 114, 105, 97, 98, 108, 101, 77, 111, 100, 105, 102, 105, 101, 114>>,  \* VariableModifier
  <<84, 104, 114, 111, 119, 115>>,  \* Throws
  <<69, 120, 99, 101, 112, 116, 105, 111, 110, 84, 121, 112, 101, 76, 105, 115, 116>>,  \* ExceptionTypeList
  <<69, 120, 99, 101, 112, 116, 105, 111, 110, 84, 121, 112, 101>>,  \* ExceptionType
  <<77, 101, 116, 104, 111, 100, 66, 111, 100, 121>>,  \* MethodBody
  <<73, 110, 115, 116, 97, 110, 99, 101, 73, 110, 105, 116, 105, 97, 108, 105, 122, 101, 114>>,  \* InstanceInitializer
  <<83, 116, 97, 116, 105, 99, 73, 110, 105, 116, 105, 97, 108, 105, 122, 101, 114>>,  \* StaticInitializer
  <<67, 111, 110, 115, 116, 114, 117, 99, 116, 111, 114, 68, 101, 99, 108, 97, 114, 97, 116, 105, 111, 110>>,  \* ConstructorDeclaration
  <<67, 111, 110, 115, 116, 114, 117, 99, 116, 111, 114, 77, 111, 100, 105, 102, 105, 101, 114>>,  \* ConstructorModifier
  <<67, 111, 110, 115, 116, 114, 117, 99, 116, 111, 114, 68, 101, 99, 108, 97, 114, 97, 116, 111, 114>>,  \* ConstructorDeclarator
  <<83, 105, 109, 112, 108, 101, 84, 121, 112, 101, 78, 97, 109, 101>>,  \* SimpleTypeName
  <<67, 111, 110, 115, 116, 114, 117, 99, 116, 111, 114, 66, 111, 100, 121>>,  \* ConstructorBody
  <<67, 111, 110, 115, 116, 114, 117, 99, 116, 111, 114, 73, 110, 118, 111, 99, 97, 116, 105, 111, 110>>,  \* ConstructorInvocation
  <<69, 110, 117, 109, 68, 101, 99, 108, 97, 114, 97, 116, 105, 111, 110>>,  \* EnumDeclaration
  <<69, 110, 117, 109, 66, 111, 100, 121>>,  \* EnumBody
  <<69, 110, 117, 109, 67, 111, 110, 115, 116, 97, 110, 116, 76, 105, 115, 116>>,  \* EnumConstantList
  <<69, 110, 117, 109, 67, 111, 110, 115, 116, 97, 110, 116>>,  \* EnumConstant
  <<69, 110, 117, 109, 67, 111, 110, 115, 116, 97, 110, 116, 77, 111, 100, 105, 102, 105, 101, 114>>,  \* EnumConstantModifier
  <<69, 110, 117, 109, 66, 111, 100, 121, 68, 101, 99, 108, 97, 114, 97, 116, 105, 111, 110, 115>>,  \* EnumBodyDeclarations
  <<82, 101, 99, 111, 114, 100, 68, 101, 99, 108, 97, 114, 97, 116, 105, 111, 110>>,  \* RecordDeclaration
  <<82, 101, 99, 111, 114, 100, 72, 101, 97, 100, 101, 114>>,  \* RecordHeader
  <<82, 101, 99, 111, 114, 100, 67, 111, 109, 112, 111, 110, 101, 110, 116, 76, 105, 115, 116>>,  \* RecordComponentList
  <<82, 101, 99, 111, 114, 100, 67, 111, 109, 112, 111, 110, 101, 110, 116>>,  \* RecordComponent
  <<86, 97, 114, 105, 97, 98, 108, 101, 65, 114, 105, 116, 121, 82, 101, 99, 111, 114, 100, 67, 111, 109, 112, 111, 110, 101, 110, 116>>,  \* VariableArityRecordComponent
  <<82, 101, 99, 111, 114, 100, 67, 111, 109, 112, 111, 110, 101, 110, 116, 77, 111, 100, 105, 102, 105, 101, 114>>,  \* RecordComponentModifier
  <<82, 101, 99, 111, 114, 100, 66, 111, 100, 121>>,  \* RecordBody
  <<82, 101, 99, 111, 114, 100, 66, 111, 100, 121, 68, 101, 99, 108, 97, 114, 97, 116, 105, 111, 110>>,  \* RecordBodyDeclaration
  <<67, 111, 109, 112, 97, 99, 116, 67, 111, 110, 115, 116, 114, 117, 99, 116, 111, 114, 68, 101, 99, 108, 97, 114, 97, 116, 105, 111, 110>>,  \* CompactConstructorDeclaration
  <<73, 110, 116, 101, 114, 102, 97, 99, 101, 68, 101, 99, 108, 97, 114, 97, 116, 105, 111, 110>>,  \* InterfaceDeclaration
  <<78, 111, 114, 109, 97, 108, 73, 110, 116, 101, 114, 102, 97, 99, 101, 68, 101, 99, 108, 97, 114, 97, 116, 105, 111, 110>>,  \* NormalInterfaceDeclaration
  <<73, 110, 116, 101, 114, 102, 97, 99, 101, 77, 111, 100, 105, 102, 105, 101, 114>>,  \* InterfaceModifier
  <<73, 110, 116, 101, 114, 102, 97, 99, 101, 69, 120, 116, 101, 110, 100, 115>>,  \* InterfaceExtends
  <<73, 110, 116, 101, 114, 102, 97, 99, 101, 80, 101, 114, 109, 105, 116, 115>>,  \* InterfacePermits
  <<73, 110, 116, 101, 114, 102, 97, 99, 101, 66, 111, 100, 121>>,  \* InterfaceBody
  <<73, 110, 116, 101, 114, 102, 97, 99, 101, 77, 101, 109, 98, 101, 114, 68, 101, 99, 108, 97, 114, 97, 116, 105, 111, 110>>,  \* InterfaceMemberDeclaration
  <<67, 111, 110, 115, 116, 97, 110, 116, 68, 101, 99, 108, 97, 114, 97, 116, 105, 111, 110>>,  \* ConstantDeclaration
  <<67, 111, 110, 115, 116, 97, 110, 116, 77, 111, 100, 105, 102, 105, 101, 114>>,  \* ConstantModifier
  <<73, 110, 116, 101, 114, 102, 97, 99, 101, 77, 101, 116, 104, 111, 100, 68, 101, 99, 108, 97, 114, 97, 116, 105, 111, 110>>,  \* InterfaceMethodDeclaration
  <<73, 110, 116, 101, 114, 102, 97, 99, 101, 77, 101, 116, 104, 111, 100, 77, 111, 100, 105, 102, 105, 101, 114>>,  \* InterfaceMethodModifier
  <<65, 110, 110, 111, 116, 97, 116, 105, 111, 110, 73, 110, 116, 101, 114, 102, 97, 99, 101, 68, 101, 99, 108, 97, 114, 97, 116, 105, 111, 110>>,  \* AnnotationInterfaceDeclaration
  <<65, 110, 110, 111, 116, 97, 116, 105, 111, 110, 73, 110, 116, 101, 114, 102, 97, 99, 101, 66, 111, 100, 121>>,  \* AnnotationInterfaceBody
  <<65, 110, 110, 111, 116, 97, 116, 105, 111, 110, 73, 110, 116, 101, 114, 102, 97, 99, 101, 77, 101, 109, 98, 101, 114, 68, 101, 99, 108, 97, 114, 97, 116, 105, 111, 110>>,  \* AnnotationInterfaceMemberDeclaration
  <<65, 110, 110, 111, 116, 97, 116, 105, 111, 110, 73, 110, 116, 101, 114, 102, 97, 99, 101, 69, 108, 101, 109, 101, 110, 116, 68, 101, 99, 108, 97, 114, 97, 116, 105, 111, 110>>,  \* AnnotationInterfaceElementDeclaration
  <<65, 110, 110, 111, 116, 97, 116, 105, 111, 110, 73, 110, 116, 101, 114, 102, 97, 99, 101, 69, 108, 101, 109, 101, 110, 116, 77, 111, 100, 105, 102, 105, 101, 114>>,  \* AnnotationInterfaceElementModifier
  <<68, 101, 102, 97, 117, 108, 116, 86, 97, 108, 117, 101>>,  \* DefaultValue
  <<65, 110, 110, 111, 116, 97, 116, 105, 111, 110>>,  \* Annotation
  <<78, 111, 114, 109, 97, 108, 65, 110, 110, 111, 116, 97, 116, 105, 111, 110>>,  \* NormalAnnotation
  <<69, 108, 101, 109, 101, 110, 116, 86, 97, 108, 117, 101, 80, 97, 105, 114, 76, 105, 115, 116>>,  \* ElementValuePairList
  <<69, 108, 101, 109, 101, 110, 116, 86, 97, 108, 117, 101, 80, 97, 105, 114>>,  \* ElementValuePair
  <<69, 108, 101, 109, 101, 110, 116, 86, 97, 108, 117, 101>>,  \* ElementValue
  <<69, 108, 101, 109, 101, 110, 116, 86, 97, 108, 117, 101, 65, 114, 114, 97, 121, 73, 110, 105, 116, 105, 97, 108, 105, 122, 101, 114>>,  \* ElementValueArrayInitializer
  <<69, 108, 101, 109, 101, 110, 116, 86, 97, 108, 117, 101, 76, 105, 115, 116>>,  \* ElementValueList
  <<77, 97, 114, 107, 101, 114, 65, 110, 110, 111, 116, 97, 116, 105, 111, 110>>,  \* MarkerAnnotation
  <<83, 105, 110, 103, 108, 101, 69, 108, 101, 109, 101, 110, 116, 65, 110, 110, 111, 116, 97, 116, 105, 111, 110>>,  \* SingleElementAnnotation
  <<65, 114, 114, 97, 121, 73, 110, 105, 116, 105, 97, 108, 105, 122, 101, 114>>,  \* ArrayInitializer
  <<86, 97, 114, 105, 97, 98, 108, 101, 73, 110, 105, 116, 105, 97, 108, 105, 122, 101, 114, 76, 105, 115, 116>>,  \* VariableInitializerList
  <<66, 108, 111, 99, 107>>,  \* Block
  <<66, 108, 111, 99, 107, 83, 116, 97, 116, 101, 109, 101, 110, 116, 115>>,  \* BlockStatements
  <<66, 108, 111, 99, 107, 83, 116, 97, 116, 101, 109, 101, 110, 116>>,  \* BlockStatement
  <<76, 111, 99, 97, 108, 67, 108, 97, 115, 115, 79, 114, 73, 110, 116, 101, 114, 102, 97, 99, 101, 68, 101, 99, 108, 97, 114, 97, 116, 105, 111, 110>>,  \* LocalClassOrInterfaceDeclaration
  <<76, 111, 99, 97, 108, 86, 97, 114, 105, 97, 98, 108, 101, 68, 101, 99, 108, 97, 114, 97, 116, 105, 111, 110, 83, 116, 97, 116, 101, 109, 101, 110, 116>>,  \* LocalVariableDeclarationStatement
  <<76, 111, 99, 97, 108, 86, 97, 114, 105, 97, 98, 108, 101, 68, 101, 99, 108, 97, 114, 97, 116, 105, 111, 110>>,  \* LocalVariableDeclaration
  <<76, 111, 99, 97, 108, 86, 97, 114, 105, 97, 98, 108, 101, 84, 121, 112, 101>>,  \* LocalVariableType
  <<83, 116, 97, 116, 101, 109, 101, 110, 116>>,  \* Statement
  <<83, 116, 97, 116, 101, 109, 101, 110, 116, 78, 111, 83, 104, 111, 114, 116, 73, 102>>,  \* StatementNoShortIf
  <<83, 116, 97, 116, 101, 109, 101, 110, 116, 87, 105, 116, 104, 111, 117, 116, 84, 114, 97, 105, 108, 105, 110, 103, 83, 117, 98, 115, 116, 97, 116, 101, 109, 101, 110, 116>>,  \* StatementWithoutTrailingSubstatement
  <<69, 109, 112, 116, 121, 83, 116, 97, 116, 101, 109, 101, 110, 116>>,  \* EmptyStatement
  <<76, 97, 98, 101, 108, 101, 100, 83, 116, 97, 116, 101, 109, 101, 110, 116>>,  \* LabeledStatement
  <<76, 97, 98, 101, 108, 101, 100, 83, 116, 97, 116, 101, 109, 101, 110, 116, 78, 111, 83, 104, 111, 114, 116, 73, 102>>,  \* LabeledStatementNoShortIf
  <<69, 120, 112, 114, 101, 115, 115, 105, 111, 110, 83, 116, 97, 116, 101, 109, 101, 110, 116>>,  \* ExpressionStatement
  <<83, 116, 97, 116, 101, 109, 101, 110, 116, 69, 120, 112, 114, 101, 115, 115, 105, 111, 110>>,  \* StatementExpression
  <<73, 102, 84, 104, 101, 110, 83, 116, 97, 116, 101, 109, 101, 110, 116>>,  \* IfThenStatement
  <<73, 102, 84, 104, 101, 110, 69, 108, 115, 101, 83, 116, 97, 116, 101, 109, 101, 110, 116>>,  \* IfThenElseStatement
  <<73, 102, 84, 104, 101, 110, 69, 108, 115, 101, 83, 116, 97, 116, 101, 109, 101, 110, 116, 78, 111, 83, 104, 111, 114, 116, 73, 102>>,  \* IfThenElseStatementNoShortIf
  <<65, 115, 115, 101, 114, 116, 83, 116, 97, 116, 101, 109, 101, 110, 116>>,  \* AssertStatement
  <<83, 119, 105, 116, 99, 104, 83, 116, 97, 116, 101, 109, 101, 110, 116>>,  \* SwitchStatement
  <<83, 119, 105, 116, 99, 104, 66, 108, 111, 99, 107>>,  \* SwitchBlock
  <<83, 119, 105, 116, 99, 104, 82, 117, 108, 101>>,  \* SwitchRule
  <<83, 119, 105, 116, 99, 104, 66, 108, 111, 99, 107, 83, 116, 97, 116, 101, 109, 101, 110, 116, 71, 114, 111, 117, 112>>,  \* SwitchBlockStatementGroup
  <<83, 119, 105, 116, 99, 104, 76, 97, 98, 101, 108>>,  \* SwitchLabel
  <<67, 97, 115, 101, 67, 111, 110, 115, 116, 97, 110, 116>>,  \* CaseConstant
  <<67, 97, 115, 101, 80, 97, 116, 116, 101, 114, 110>>,  \* CasePattern
  <<71, 117, 97, 114, 100>>,  \* Guard
  <<87, 104, 105, 108, 101, 83, 116, 97, 116, 101, 109, 101, 110, 116>>,  \* WhileStatement
  <<87, 104, 105, 108, 101, 83, 116, 97, 116, 101, 109, 101, 110, 116, 78, 111, 83, 104, 111, 114, 116, 73, 102>>,  \* WhileStatementNoShortIf
  <<68, 111, 83, 116, 97, 116, 101, 109, 101, 110, 116>>,  \* DoStatement
  <<70, 111, 114, 83, 116, 97, 116, 101, 109, 101, 110, 116>>,  \* ForStatement
  <<70, 111, 114, 83, 116, 97, 116, 101, 109, 101, 110, 116, 78, 111, 83, 104, 111, 114, 116, 73, 102>>,  \* ForStatementNoShortIf
  <<66, 97, 115, 105, 99, 70, 111, 114, 83, 116, 97, 116, 101, 109, 101, 110, 116>>,  \* BasicForStatement
  <<66, 97, 115, 105, 99, 70, 111, 114, 83, 116, 97, 116, 101, 109, 101, 110, 116, 78, 111, 83, 104, 111, 114, 116, 73, 102>>,  \* BasicForStatementNoShortIf
  <<70, 111, 114, 73, 110, 105, 116>>,  \* ForInit
  <<70, 111, 114, 85, 112, 100, 97, 116, 101>>,  \* ForUpdate
  <<83, 116, 97, 116, 101, 109, 101, 110, 116, 69, 120, 112, 114, 101, 115, 115, 105, 111, 110, 76, 105, 115, 116>>,  \* StatementExpressionList
  <<69, 110, 104, 97, 110, 99, 101, 100, 70, 111, 114, 83, 116, 97, 116, 101, 109, 101, 110, 116>>,  \* EnhancedForStatement
  <<69, 110, 104, 97, 110, 99, 101, 100, 70, 111, 114, 83, 116, 97, 116, 101, 109, 101, 110, 116, 78, 111, 83, 104, 111, 114, 116, 73, 102>>,  \* EnhancedForStatementNoShortIf
  <<66, 114, 101, 97, 107, 83, 116, 97, 116, 101, 109, 101, 110, 116>>,  \* BreakStatement
  <<89, 105, 101, 108, 100, 83, 116, 97, 116, 101, 109, 101, 110, 116>>,  \* YieldStatement
  <<67, 111, 110, 116, 105, 110, 117, 101, 83, 116, 97, 116, 101, 109, 101, 110, 116>>,  \* ContinueStatement
  <<82, 101, 116, 117, 114, 110, 83, 116, 97, 116, 101, 109, 101, 110, 116>>,  \* ReturnStatement
  <<84, 104, 114, 111, 119, 83, 116, 97, 116, 101, 109, 101, 110, 116>>,  \* ThrowStatement
  <<83, 121, 110, 99, 104, 114, 111, 110, 105, 122, 101, 100, 83, 116, 97, 116, 101, 109, 101, 110, 116>>,  \* SynchronizedStatement
  <<84, 114, 121, 83, 116, 97, 116, 101, 109, 101, 110, 116>>,  \* TryStatement
  <<67, 97, 116, 99, 104, 101, 115>>,  \* Catches
  <<67, 97, 116, 99, 104, 67, 108, 97, 117, 115, 101>>,  \* CatchClause
  <<67, 97, 116, 99, 104, 70, 111, 114, 109, 97, 108, 80, 97, 114, 97, 109, 101, 116, 101, 114>>,  \* CatchFormalParameter
  <<67, 97, 116, 99, 104, 84, 121, 112, 101>>,  \* CatchType
  <<70, 105, 110, 97, 108, 108, 121>>,  \* Finally
  <<84, 114, 121, 87, 105, 116, 104, 82, 101, 115, 111, 117, 114, 99, 101, 115, 83, 116, 97, 116, 101, 109, 101, 110, 116>>,  \* TryWithResourcesStatement
  <<82, 101, 115, 111, 117, 114, 99, 101, 83, 112, 101, 99, 105, 102, 105, 99, 97, 116, 105, 111, 110>>,  \* ResourceSpecification
  <<82, 101, 115, 111, 117, 114, 99, 101, 76, 105, 115, 116>>,  \* ResourceList
  <<82, 101, 115, 111, 117, 114, 99, 101>>,  \* Resource
  <<86, 97, 114, 105, 97, 98, 108, 101, 65, 99, 99, 101, 115, 115>>,  \* VariableAccess
  <<80, 97, 116, 116, 101, 114, 110>>,  \* Pattern
  <<84, 121, 112, 101, 80, 97, 116, 116, 101, 114, 110>>,  \* TypePattern
  <<82, 101, 99, 111, 114, 100, 80, 97, 116, 116, 101, 114, 110>>,  \* RecordPattern
  <<67, 111, 109, 112, 111, 110, 101, 110, 116, 80, 97, 116, 116, 101, 114, 110, 76, 105, 115, 116>>,  \* ComponentPatternList
  <<67, 111, 109, 112, 111, 110, 101, 110, 116, 80, 97, 116, 116, 101, 114, 110>>,  \* ComponentPattern
  <<77, 97, 116, 99, 104, 65, 108, 108, 80, 97, 116, 116, 101, 114, 110>>,  \* MatchAllPattern
  <<80, 114, 105, 109, 97, 114, 121>>,  \* Primary
  <<80, 114, 105, 109, 97, 114, 121, 78, 111, 78, 101, 119, 65, 114, 114, 97, 121>>,  \* PrimaryNoNewArray
  <<67, 108, 97, 115, 115, 76, 105, 116, 101, 114, 97, 108>>,  \* ClassLiteral
  <<67, 108, 97, 115, 115, 73, 110, 115, 116, 97, 110, 99, 101, 67, 114, 101, 97, 116, 105, 111, 110, 69, 120, 112, 114, 101, 115, 115, 105, 111, 110>>,  \* ClassInstanceCreationExpression
  <<85, 110, 113, 117, 97, 108, 105, 102, 105, 101, 100, 67, 108, 97, 115, 115, 73, 110, 115, 116, 97, 110, 99, 101, 67, 114, 101, 97, 116, 105, 111, 110, 69, 120, 112, 114, 101, 115, 115, 105, 111, 110>>,  \* UnqualifiedClassInstanceCreationExpression
  <<67, 108, 97, 115, 115, 79, 114, 73, 110, 116, 101, 114, 102, 97, 99, 101, 84, 121, 112, 101, 84, 111, 73, 110, 115, 116, 97, 110, 116, 105, 97, 116, 101>>,  \* ClassOrInterfaceTypeToInstantiate
  <<84, 121, 112, 101, 65, 114, 103, 117, 109, 101, 110, 116, 115, 79, 114, 68, 105, 97, 109, 111, 110, 100>>,  \* TypeArgumentsOrDiamond
  <<65, 114, 114, 97, 121, 67, 114, 101, 97, 116, 105, 111, 110, 69, 120, 112, 114, 101, 115, 115, 105, 111, 110>>,  \* ArrayCreationExpression
  <<65, 114, 114, 97, 121, 67, 114, 101, 97, 116, 105, 111, 110, 69, 120, 112, 114, 101, 115, 115, 105, 111, 110, 87, 105, 116, 104, 111, 117, 116, 73, 110, 105, 116, 105, 97, 108, 105, 122, 101, 114>>,  \* ArrayCreationExpressionWithoutInitializer
  <<65, 114, 114, 97, 121, 67, 114, 101, 97, 116, 105, 111, 110, 69, 120, 112, 114, 101, 115, 115, 105, 111, 110, 87, 105, 116, 104, 73, 110, 105, 116, 105, 97, 108, 105, 122, 101, 114>>,  \* ArrayCreationExpressionWithInitializer
  <<68, 105, 109, 69, 120, 112, 114, 115>>,  \* DimExprs
  <<68, 105, 109, 69, 120, 112, 114>>,  \* DimExpr
  <<65, 114, 114, 97, 121, 65, 99, 99, 101, 115, 115>>,  \* ArrayAccess
  <<70, 105, 101, 108, 100, 65, 99, 99, 101, 115, 115>>,  \* FieldAccess
  <<77, 101, 116, 104, 111, 100, 73, 110, 118, 111, 99, 97, 116, 105, 111, 110>>,  \* MethodInvocation
  <<65, 114, 103, 117, 109, 101, 110, 116, 76, 105, 115, 116>>,  \* ArgumentList
  <<77, 101, 116, 104, 111, 100, 82, 101, 102, 101, 114, 101, 110, 99, 101>>,  \* MethodReference
  <<69, 120, 112, 114, 101, 115, 115, 105, 111, 110>>,  \* Expression
  <<76, 97, 109, 98, 100, 97, 69, 120, 112, 114, 101, 115, 115, 105, 111, 110>>,  \* LambdaExpression
  <<76, 97, 109, 98, 100, 97, 80, 97, 114, 97, 109, 101, 116, 101, 114, 115>>,  \* LambdaParameters
  <<76, 97, 109, 98, 100, 97, 80, 97, 114, 97, 109, 101, 116, 101, 114, 76, 105, 115, 116>>,  \* LambdaParameterList
  <<78, 111, 114, 109, 97, 108, 76, 97, 109, 98, 100, 97, 80, 97, 114, 97, 109, 101, 116, 101, 114>>,  \* NormalLambdaParameter
  <<76, 97, 109, 98, 100, 97, 80, 97, 114, 97, 109, 101, 116, 101, 114, 84, 121, 112, 101>>,  \* LambdaParameterType
  <<67, 111, 110, 99, 105, 115, 101, 76, 97, 109, 98, 100, 97, 80, 97, 114, 97, 109, 101, 116, 101, 114>>,  \* ConciseLambdaParameter
  <<76, 97, 109, 98, 100, 97, 66, 111, 100, 121>>,  \* LambdaBody
  <<65, 115, 115, 105, 103, 110, 109, 101, 110, 116, 69, 120, 112, 114, 101, 115, 115, 105, 111, 110>>,  \* AssignmentExpression
  <<65, 115, 115, 105, 103, 110, 109, 101, 110, 116>>,  \* Assignment
  <<76, 101, 102, 116, 72, 97, 110, 100, 83, 105, 100, 101>>,  \* LeftHandSide
  <<65, 115, 115, 105, 103, 110, 109, 101, 110, 116, 79, 112, 101, 114, 97, 116, 111, 114>>,  \* AssignmentOperator
  <<67, 111, 110, 100, 105, 116, 105, 111, 110, 97, 108, 69, 120, 112, 114, 101, 115, 115, 105, 111, 110>>,  \* ConditionalExpression
  <<67, 111, 110, 100, 105, 116, 105, 111, 110, 97, 108, 79, 114, 69, 120, 112, 114, 101, 115, 115, 105, 111, 110>>,  \* ConditionalOrExpression
  <<67, 111, 110, 100, 105, 116, 105, 111, 110, 97, 108, 65, 110, 100, 69, 120, 112, 114, 101, 115, 115, 105, 111, 110>>,  \* ConditionalAndExpression
  <<73, 110, 99, 108, 117, 115, 105, 118, 101, 79, 114, 69, 120, 112, 114, 101, 115, 115, 105, 111, 110>>,  \* InclusiveOrExpression
  <<69, 120, 99, 108, 117, 115, 105, 118, 101, 79, 114, 69, 120, 112, 114, 101, 115, 115, 105, 111, 110>>,  \* ExclusiveOrExpression
  <<65, 110, 100, 69, 120, 112, 114, 101, 115, 115, 105, 111, 110>>,  \* AndExpression
  <<69, 113, 117, 97, 108, 105, 116, 121, 69, 120, 112, 114, 101, 115, 115, 105, 111, 110>>,  \* EqualityExpression
  <<82, 101, 108, 97, 116, 105, 111, 110, 97, 108, 69, 120, 112, 114, 101, 115, 115, 105, 111, 110>>,  \* RelationalExpression
  <<73, 110, 115, 116, 97, 110, 99, 101, 111, 102, 69, 120, 112, 114, 101, 115, 115, 105, 111, 110>>,  \* InstanceofExpression
  <<83, 104, 105, 102, 116, 69, 120, 112, 114, 101, 115, 115, 105, 111, 110>>,  \* ShiftExpression
  <<65, 100, 100, 105, 116, 105, 118, 101, 69, 120, 112, 114, 101, 115, 115, 105, 111, 110>>,  \* AdditiveExpression
  <<77, 117, 108, 116, 105, 112, 108, 105, 99, 97, 116, 105, 118, 101, 69, 120, 112, 114, 101, 115, 115, 105, 111, 110>>,  \* MultiplicativeExpression
  <<85, 110, 97, 114, 121, 69, 120, 112, 114, 101, 115, 115, 105, 111, 110>>,  \* UnaryExpression
  <<80, 114, 101, 73, 110, 99, 114, 101, 109, 101, 110, 116, 69, 120, 112, 114, 101, 115, 115, 105, 111, 110>>,  \* PreIncrementExpression
  <<80, 114, 101, 68, 101, 99, 114, 101, 109, 101, 110, 116, 69, 120, 112, 114, 101, 115, 115, 105, 111, 110>>,  \* PreDecrementExpression
  <<85, 110, 97, 114, 121, 69, 120, 112, 114, 101, 115, 115, 105, 111, 110, 78, 111, 116, 80, 108, 117, 115, 77, 105, 110, 117, 115>>,  \* UnaryExpressionNotPlusMinus
  <<80, 111, 115, 116, 102, 105, 120, 69, 120, 112, 114, 101, 115, 115, 105, 111, 110>>,  \* PostfixExpression
  <<80, 111, 115, 116, 73, 110, 99, 114, 101, 109, 101, 110, 116, 69, 120, 112, 114, 101, 115, 115, 105, 111, 110>>,  \* PostIncrementExpression
  <<80, 111, 115, 116, 68, 101, 99, 114, 101, 109, 101, 110, 116, 69, 120, 112, 114, 101, 115, 115, 105, 111, 110>>,  \* PostDecrementExpression
  <<67, 97, 115, 116, 69, 120, 112, 114, 101, 115, 115, 105, 111, 110>>,  \* CastExpression
  <<83, 119, 105, 116, 99, 104, 69, 120, 112, 114, 101, 115, 115, 105, 111, 110>>  \* SwitchExpression
>>

\* ebnfDefinitions.ts with its first entry lost
RepoEbnfKeys_Drifted == Tail(RepoDiagramKeys)

\* ebnfDefinitions.ts: the quoted keys of EBNF_DEFINITIONS
RepoEbnfKeys == <<
  <<73, 100, 101, 110, 116, 105, 102, 105, 101, 114>>,  \* Identifier
  <<73, 100, 101, 110, 116, 105, 102, 105, 101, 114, 67, 104, 97, 114, 115>>,  \* IdentifierChars
  <<74, 97, 118, 97, 76, 101, 116, 116, 101, 114>>,  \* JavaLetter
  <<74, 97, 118, 97, 76, 101, 116, 116, 101, 114, 79, 114, 68, 105, 103, 105, 116>>,  \* JavaLetterOrDigit
  <<84, 121, 112, 101, 73, 100, 101, 110, 116, 105, 102, 105, 101, 114>>,  \* TypeIdentifier
  <<85, 110, 113, 117, 97, 108, 105, 102, 105, 101, 100, 77, 101, 116, 104, 111, 100, 73, 100, 101, 110, 116, 105, 102, 105, 101, 114>>,  \* UnqualifiedMethodIdentifier
  <<76, 105, 116, 101, 114, 97, 108>>,  \* Literal
  <<84, 121, 112, 101>>,  \* Type
  <<80, 114, 105, 109, 105, 116, 105, 118, 101, 84, 121, 112, 101>>,  \* PrimitiveType
  <<78, 117, 109, 101, 114, 105, 99, 84, 121, 112, 101>>,  \* NumericType
  <<73, 110, 116, 101, 103, 114, 97, 108, 84, 121, 112, 101>>,  \* IntegralType
  <<70, 108, 111, 97, 116, 105, 110, 103, 80, 111, 105, 110, 116, 84, 121, 112, 101>>,  \* FloatingPointType
  <<82, 101, 102, 101, 114, 101, 110, 99, 101, 84, 121, 112, 101>>,  \* ReferenceType
  <<67, 108, 97, 115, 115, 79, 114, 73, 110, 116, 101, 114, 102, 97, 99, 101, 84, 121, 112, 101>>,  \* ClassOrInterfaceType
  <<67, 108, 97, 115, 115, 84, 121, 112, 101>>,  \* ClassType
  <<73, 110, 116, 101, 114, 102, 97, 99, 101, 84, 121, 112, 101>>,  \* InterfaceType
  <<84, 121, 112, 101, 86, 97, 114, 105, 97, 98, 108, 101>>,  \* TypeVariable
  <<65, 114, 114, 97, 121, 84, 121, 112, 101>>,  \* ArrayType
  <<68, 105, 109, 115>>,  \* Dims
  <<84, 121, 112, 101, 80, 97, 114, 97, 109, 101, 116, 101, 114>>,  \* TypeParameter
  <<84, 121, 112, 101, 80, 97, 114, 97, 109, 101, 116, 101, 114, 77, 111, 100, 105, 102, 105, 101, 114>>,  \* TypeParameterModifier
  <<84, 121, 112, 101, 66, 111, 117, 110, 100>>,  \* TypeBound
  <<65, 100, 100, 105, 116, 105, 111, 110, 97, 108, 66, 111, 117, 110, 100>>,  \* AdditionalBound
  <<84, 121, 112, 101, 65, 114, 103, 117, 109, 101, 110, 116, 115>>,  \* TypeArguments
  <<84, 121, 112, 101, 65, 114, 103, 117, 109, 101, 110, 116, 76, 105, 115, 116>>,  \* TypeArgumentList
  <<84, 121, 112, 101, 65, 114, 103, 117, 109, 101, 110, 116>>,  \* TypeArgument
  <<87, 105, 108, 100, 99, 97, 114, 100>>,  \* Wildcard
  <<87, 105, 108, 100, 99, 97, 114, 100, 66, 111, 117, 110, 100, 115>>,  \* WildcardBounds
  <<77, 111, 100, 117, 108, 101, 78, 97, 109, 101>>,  \* ModuleName
  <<80, 97, 99, 107, 97, 103, 101, 78, 97, 109, 101>>,  \* PackageName
  <<84, 121, 112, 101, 78, 97, 109, 101>>,  \* TypeName
  <<69, 120, 112, 114, 101, 115, 115, 105, 111, 110, 78, 97, 109, 101>>,  \* ExpressionName
  <<77, 101, 116, 104, 111, 100, 78, 97, 109, 101>>,  \* MethodName
  <<80, 97, 99, 107, 97, 103, 101, 79, 114, 84, 121, 112, 101, 78, 97, 109, 101>>,  \* PackageOrTypeName
  <<65, 109, 98, 105, 103, 117, 111, 117, 115, 78, 97, 109, 101>>,  \* AmbiguousName
  <<67, 111, 109, 112, 105, 108, 97, 116, 105, 111, 110, 85, 110, 105, 116>>,  \* CompilationUnit
  <<79, 114, 100, 105, 110, 97, 114, 121, 67, 111, 109, 112, 105, 108, 97, 116, 105, 111, 110, 85, 110, 105, 116>>,  \* OrdinaryCompilationUnit
  <<77, 111, 100, 117, 108, 97, 114, 67, 111, 109, 112, 105, 108, 97, 116, 105, 111, 110, 85, 110, 105, 116>>,  \* ModularCompilationUnit
  <<80, 97, 99, 107, 97, 103, 101, 68, 101, 99, 108, 97, 114, 97, 116, 105, 111, 110>>,  \* PackageDeclaration
  <<80, 97, 99, 107, 97, 103, 101, 77, 111, 100, 105, 102, 105, 101, 114>>,  \* PackageModifier
  <<73, 109, 112, 111, 114, 116, 68, 101, 99, 108, 97, 114, 97, 116, 105, 111, 110>>,  \* ImportDeclaration
  <<83, 105, 110, 103, 108, 101, 84, 121, 112, 101, 73, 109, 112, 111, 114, 116, 68, 101, 99, 108, 97, 114, 97, 116, 105, 111, 110>>,  \* SingleTypeImportDeclaration
  <<84, 121, 112, 101, 73, 109, 112, 111, 114, 116, 79, 110, 68, 101, 109, 97, 110, 100, 68, 101, 99, 108, 97, 114, 97, 116, 105, 111, 110>>,  \* TypeImportOnDemandDeclaration
  <<83, 105, 110, 103, 108, 101, 83, 116, 97, 116, 105, 99, 73, 109, 112, 111, 114, 116, 68, 101, 99, 108, 97, 114, 97, 116, 105, 111, 110>>,  \* SingleStaticImportDeclaration
  <<83, 116, 97, 116, 105, 99, 73, 109, 112, 111, 114, 116, 79, 110, 68, 101, 109, 97, 110, 100, 68, 101, 99, 108, 97, 114, 97, 116, 105, 111, 110>>,  \* StaticImportOnDemandDeclaration
  <<83, 105, 110, 103, 108, 101, 77, 111, 100, 117, 108, 101, 73, 109, 112, 111, 114, 116, 68, 101, 99, 108, 97, 114, 97, 116, 105, 111, 110>>,  \* SingleModuleImportDeclaration
  <<84, 111, 112, 76, 101, 118, 101, 108, 67, 108, 97, 115, 115, 79, 114, 73, 110, 116, 101, 114, 102, 97, 99, 101, 68, 101, 99, 108, 97, 114, 97, 116, 105, 111, 110>>,  \* TopLevelClassOrInterfaceDeclaration
  <<77, 111, 100, 117, 108, 101, 68, 101, 99, 108, 97, 114, 97, 116, 105, 111, 110>>,  \* ModuleDeclaration
  <<77, 111, 100, 117, 108, 101, 68, 105, 114, 101, 99, 116, 105, 118, 101>>,  \* ModuleDirective
  <<82, 101, 113, 117, 105, 114, 101, 115, 77, 111, 100, 105, 102, 105, 101, 114>>,  \* RequiresModifier
  <<67, 108, 97, 115, 115, 68, 101, 99, 108, 97, 114, 97, 116, 105, 111, 110>>,  \* ClassDeclaration
  <<78, 111, 114, 109, 97, 108, 67, 108, 97, 115, 115, 68, 101, 99, 108, 97, 114, 97, 116, 105, 111, 110>>,  \* NormalClassDeclaration
  <<67, 108, 97, 115, 115, 77, 111, 100, 105, 102, 105, 101, 114>>,  \* ClassModifier
  <<84, 121, 112, 101, 80, 97, 114, 97, 109, 101, 116, 101, 114, 115>>,  \* TypeParameters
  <<84, 121, 112, 101, 80, 97, 114, 97, 109, 101, 116, 101, 114, 76, 105, 115, 116>>,  \* TypeParameterList
  <<67, 108, 97, 115, 115, 69, 120, 116, 101, 110, 100, 115>>,  \* ClassExtends
  <<67, 108, 97, 115, 115, 73, 109, 112, 108, 101, 109, 101, 110, 116, 115>>,  \* ClassImplements
  <<73, 110, 116, 101, 114, 102, 97, 99, 101, 84, 121, 112, 101, 76, 105, 115, 116>>,  \* InterfaceTypeList
  <<67, 108, 97, 115, 115, 80, 101, 114, 109, 105, 116, 115>>,  \* ClassPermits
  <<67, 108, 97, 115, 115, 66, 111, 100, 121>>,  \* ClassBody
  <<67, 108, 97, 115, 115, 66, 111, 100, 121, 68, 101, 99, 108, 97, 114, 97, 116, 105, 111, 110>>,  \* ClassBodyDeclaration
  <<67, 108, 97, 115, 115, 77, 101, 109, 98, 101, 114, 68, 101, 99, 108, 97, 114, 97, 116, 105, 111, 110>>,  \* ClassMemberDeclaration
  <<70, 105, 101, 108, 100, 68, 101, 99, 108, 97, 114, 97, 116, 105, 111, 110>>,  \* FieldDeclaration
  <<70, 105, 101, 108, 100, 77, 111, 100, 105, 102, 105, 101, 114>>,  \* FieldModifier
  <<86, 97, 114, 105, 97, 98, 108, 101, 68, 101, 99, 108, 97, 114, 97, 116, 111, 114, 76, 105, 115, 116>>,  \* VariableDeclaratorList
  <<86, 97, 114, 105, 97, 98, 108, 101, 68, 101, 99, 108, 97, 114, 97, 116, 111, 114>>,  \* VariableDeclarator
  <<86, 97, 114, 105, 97, 98, 108, 101, 68, 101, 99, 108, 97, 114, 97, 116, 111, 114, 73, 100>>,  \* VariableDeclaratorId
  <<86, 97, 114, 105, 97, 98, 108, 101, 73, 110, 105, 116, 105, 97, 108, 105, 122, 101, 114>>,  \* VariableInitializer
  <<85, 110, 97, 110, 110, 84, 121, 112, 101>>,  \* UnannType
  <<85, 110, 97, 110, 110, 80, 114, 105, 109, 105, 116, 105, 118, 101, 84, 121, 112, 101>>,  \* UnannPrimitiveType
  <<85, 110, 97, 110, 110, 82, 101, 102, 101, 114, 101, 110, 99, 101, 84, 121, 112, 101>>,  \* UnannReferenceType
  <<85, 110, 97, 110, 110, 67, 108, 97, 115, 115, 79, 114, 73, 110, 116, 101, 114, 102, 97, 99, 101, 84, 121, 112, 101>>,  \* UnannClassOrInterfaceType
  <<85, 110, 97, 110, 110, 67, 108, 97, 115, 115, 84, 121, 112, 101>>,  \* UnannClassType
  <<85, 110, 97, 110, 110, 73, 110, 116, 101, 114, 102, 97, 99, 101, 84, 121, 112, 101>>,  \* UnannInterfaceType
  <<85, 110, 97, 110, 110, 84, 121, 112, 101, 86, 97, 114, 105, 97, 98, 108, 101>>,  \* UnannTypeVariable
  <<85, 110, 97, 110, 110, 65, 114, 114, 97, 121, 84, 121, 112, 101>>,  \* UnannArrayType
  <<77, 101, 116, 104, 111, 100, 68, 101, 99, 108, 97, 114, 97, 116, 105, 111, 110>>,  \* MethodDeclaration
  <<77, 101, 116, 104, 111, 100, 77, 111, 100, 105, 102, 105, 101, 114>>,  \* MethodModifier
  <<77, 101, 116, 104, 111, 100, 72, 101, 97, 100, 101, 114>>,  \* MethodHeader
  <<82, 101, 115, 117, 108, 116>>,  \* Result
  <<77, 101, 116, 104, 111, 100, 68, 101, 99, 108, 97, 114, 97, 116, 111, 114>>,  \* MethodDeclarator
  <<82, 101, 99, 101, 105, 118, 101, 114, 80, 97, 114, 97, 109, 101, 116, 101, 114>>,  \* ReceiverParameter
  <<70, 111, 114, 109, 97, 108, 80, 97, 114, 97, 109, 101, 116, 101, 114, 76, 105, 115, 116>>,  \* FormalParameterList
  <<70, 111, 114, 109, 97, 108, 80, 97, 114, 97, 109, 101, 116, 101, 114>>,  \* FormalParameter
  <<86, 97, 114, 105, 97, 98, 108, 101, 65, 114, 105, 116, 121, 80, 97, 114, 97, 109, 101, 116, 101, 114>>,  \* VariableArityParameter
  <<86, 97, 114, 105, 97, 98, 108, 101, 77, 111, 100, 105, 102, 105, 101, 114>>,  \* VariableModifier
  <<84, 104, 114, 111, 119, 115>>,  \* Throws
  <<69, 120, 99, 101, 112, 116, 105, 111, 110, 84, 121, 112, 101, 76, 105, 115, 116>>,  \* ExceptionTypeList
  <<69, 120, 99, 101, 112, 116, 105, 111, 110, 84, 121, 112, 101>>,  \* ExceptionType
  <<77, 101, 116, 104, 111, 100, 66, 111, 100, 121>>,  \* MethodBody
  <<73, 110, 115, 116, 97, 110, 99, 101, 73, 110, 105, 116, 105, 97, 108, 105, 122, 101, 114>>,  \* InstanceInitializer
  <<83, 116, 97, 116, 105, 99, 73, 110, 105, 116, 105, 97, 108, 105, 122, 101, 114>>,  \* StaticInitializer
  <<67, 111, 110, 115, 116, 114, 117, 99, 116, 111, 114, 68, 101, 99, 108, 97, 114, 97, 116, 105, 111, 110>>,  \* ConstructorDeclaration
  <<67, 111, 110, 115, 116, 114, 117, 99, 116, 111, 114, 77, 111, 100, 105, 102, 105, 101, 114>>,  \* ConstructorModifier
  <<67, 111, 110, 115, 116, 114, 117, 99, 116, 111, 114, 68, 101, 99, 108, 97, 114, 97, 116, 111, 114>>,  \* ConstructorDeclarator
  <<83, 105, 109, 112, 108, 101, 84, 121, 112, 101, 78, 97, 109, 101>>,  \* SimpleTypeName
  <<67, 111, 110, 115, 116, 114, 117, 99, 116, 111, 114, 66, 111, 100, 121>>,  \* ConstructorBody
  <<67, 111, 110, 115, 116, 114, 117, 99, 116, 111, 114, 73, 110, 118, 111, 99, 97, 116, 105, 111, 110>>,  \* ConstructorInvocation
  <<69, 110, 117, 109, 68, 101, 99, 108, 97, 114, 97, 116, 105, 111, 110>>,  \* EnumDeclaration
  <<69, 110, 117, 109, 66, 111, 100, 121>>,  \* EnumBody
  <<69, 110, 117, 109, 67, 111, 110, 115, 116, 97, 110, 116, 76, 105, 115, 116>>,  \* EnumConstantList
  <<69, 110, 117, 109, 67, 111, 110, 115, 116, 97, 110, 116>>,  \* EnumConstant
  <<69, 110, 117, 109, 67, 111, 110, 115, 116, 97, 110, 116, 77, 111, 100, 105, 102, 105, 101, 114>>,  \* EnumConstantModifier
  <<69, 110, 117, 109, 66, 111, 100, 121, 68, 101, 99, 108, 97, 114, 97, 116, 105, 111, 110, 115>>,  \* EnumBodyDeclarations
  <<82, 101, 99, 111, 114, 100, 68, 101, 99, 108, 97, 114, 97, 116, 105, 111, 110>>,  \* RecordDeclaration
  <<82, 101, 99, 111, 114, 100, 72, 101, 97, 100, 101, 114>>,  \* RecordHeader
  <<82, 101, 99, 111, 114, 100, 67, 111, 109, 112, 111, 110, 101, 110, 116, 76, 105, 115, 116>>,  \* RecordComponentList
  <<82, 101, 99, 111, 114, 100, 67, 111, 109, 112, 111, 110, 101, 110, 116>>,  \* RecordComponent
  <<86, 97, 114, 105, 97, 98, 108, 101, 65, 114, 105, 116, 121, 82, 101, 99, 111, 114, 100, 67, 111, 109, 112, 111, 110, 101, 110, 116>>,  \* VariableArityRecordComponent
  <<82, 101, 99, 111, 114, 100, 67, 111, 109, 112, 111, 110, 101, 110, 116, 77, 111, 100, 105, 102, 105, 101, 114>>,  \* RecordComponentModifier
  <<82, 101, 99, 111, 114, 100, 66, 111, 100, 121>>,  \* RecordBody
  <<82, 101, 99, 111, 114, 100, 66, 111, 100, 121, 68, 101, 99, 108, 97, 114, 97, 116, 105, 111, 110>>,  \* RecordBodyDeclaration
  <<67, 111, 109, 112, 97, 99, 116, 67, 111, 110, 115, 116, 114, 117, 99, 116, 111, 114, 68, 101, 99, 108, 97, 114, 97, 116, 105, 111, 110>>,  \* CompactConstructorDeclaration
  <<73, 110, 116, 101, 114, 102, 97, 99, 101, 68, 101, 99, 108, 97, 114, 97, 116, 105, 111, 110>>,  \* InterfaceDeclaration
  <<78, 111, 114, 109, 97, 108, 73, 110, 116, 101, 114, 102, 97, 99, 101, 68, 101, 99, 108, 97, 114, 97, 116, 105, 111, 110>>,  \* NormalInterfaceDeclaration
  <<73, 110, 116, 101, 114, 102, 97, 99, 101, 77, 111, 100, 105, 102, 105, 101, 114>>,  \* InterfaceModifier
  <<73, 110, 116, 101, 114, 102, 97, 99, 101, 69, 120, 116, 101, 110, 100, 115>>,  \* InterfaceExtends
  <<73, 110, 116, 101, 114, 102, 97, 99, 101, 80, 101, 114, 109, 105, 116, 115>>,  \* InterfacePermits
  <<73, 110, 116, 101, 114, 102, 97, 99, 101, 66, 111, 100, 121>>,  \* InterfaceBody
  <<73, 110, 116, 101, 114, 102, 97, 99, 101, 77, 101, 109, 98, 101, 114, 68, 101, 99, 108, 97, 114, 97, 116, 105, 111, 110>>,  \* InterfaceMemberDeclaration
  <<67, 111, 110, 115, 116, 97, 110, 116, 68, 101, 99, 108, 97, 114, 97, 116, 105, 111, 110>>,  \* ConstantDeclaration
  <<67, 111, 110, 115, 116, 97, 110, 116, 77, 111, 100, 105, 102, 105, 101, 114>>,  \* ConstantModifier
  <<73, 110, 116, 101, 114, 102, 97, 99, 101, 77, 101, 116, 104, 111, 100, 68, 101, 99, 108, 97, 114, 97, 116, 105, 111, 110>>,  \* InterfaceMethodDeclaration
  <<73, 110, 116, 101, 114, 102, 97, 99, 101, 77, 101, 116, 104, 111, 100, 77, 111, 100, 105, 102, 105, 101, 114>>,  \* InterfaceMethodModifier
  <<65, 110, 110, 111, 116, 97, 116, 105, 111, 110, 73, 110, 116, 101, 114, 102, 97, 99, 101, 68, 101, 99, 108, 97, 114, 97, 116, 105, 111, 110>>,  \* AnnotationInterfaceDeclaration
  <<65, 110, 110, 111, 116, 97, 116, 105, 111, 110, 73, 110, 116, 101, 114, 102, 97, 99, 101, 66, 111, 100, 121>>,  \* AnnotationInterfaceBody
  <<65, 110, 110, 111, 116, 97, 116, 105, 111, 110, 73, 110, 116, 101, 114, 102, 97, 99, 101, 77, 101, 109, 98, 101, 114, 68, 101, 99, 108, 97, 114, 97, 116, 105, 111, 110>>,  \* AnnotationInterfaceMemberDeclaration
  <<65, 110, 110, 111, 116, 97, 116, 105, 111, 110, 73, 110, 116, 101, 114, 102, 97, 99, 101, 69, 108, 101, 109, 101, 110, 116, 68, 101, 99, 108, 97, 114, 97, 116, 105, 111, 110>>,  \* AnnotationInterfaceElementDeclaration
  <<65, 110, 110, 111, 116, 97, 116, 105, 111, 110, 73, 110, 116, 101, 114, 102, 97, 99, 101, 69, 108, 101, 109, 101, 110, 116, 77, 111, 100, 105, 102, 105, 101, 114>>,  \* AnnotationInterfaceElementModifier
  <<68, 101, 102, 97, 117, 108, 116, 86, 97, 108, 117, 101>>,  \* DefaultValue
  <<65, 110, 110, 111, 116, 97, 116, 105, 111, 110>>,  \* Annotation
  <<78, 111, 114, 109, 97, 108, 65, 110, 110, 111, 116, 97, 116, 105, 111, 110>>,  \* NormalAnnotation
  <<69, 108, 101, 109, 101, 110, 116, 86, 97, 108, 117, 101, 80, 97, 105, 114, 76, 105, 115, 116>>,  \* ElementValuePairList
  <<69, 108, 101, 109, 101, 110, 116, 86, 97, 108, 117, 101, 80, 97, 105, 114>>,  \* ElementValuePair
  <<69, 108, 101, 109, 101, 110, 116, 86, 97, 108, 117, 101>>,  \* ElementValue
  <<69, 108, 101, 109, 101, 110, 116, 86, 97, 108, 117, 101, 65, 114, 114, 97, 121, 73, 110, 105, 116, 105, 97, 108, 105, 122, 101, 114>>,  \* ElementValueArrayInitializer
  <<69, 108, 101, 109, 101, 110, 116, 86, 97, 108, 117, 101, 76, 105, 115, 116>>,  \* ElementValueList
  <<77, 97, 114, 107, 101, 114, 65, 110, 110, 111, 116, 97, 116, 105, 111, 110>>,  \* MarkerAnnotation
  <<83, 105, 110, 103, 108, 101, 69, 108, 101, 109, 101, 110, 116, 65, 110, 110, 111, 116, 97, 116, 105, 111, 110>>,  \* SingleElementAnnotation
  <<65, 114, 114, 97, 121, 73, 110, 105, 116, 105, 97, 108, 105, 122, 101, 114>>,  \* ArrayInitializer
  <<86, 97, 114, 105, 97, 98, 108, 101, 73, 110, 105, 116, 105, 97, 108, 105, 122, 101, 114, 76, 105, 115, 116>>,  \* VariableInitializerList
  <<66, 108, 111, 99, 107>>,  \* Block
  <<66, 108, 111, 99, 107, 83, 116, 97, 116, 101, 109, 101, 110, 116, 115>>,  \* BlockStatements
  <<66, 108, 111, 99, 107, 83, 116, 97, 116, 101, 109, 101, 110, 116>>,  \* BlockStatement
  <<76, 111, 99, 97, 108, 67, 108, 97, 115, 115, 79, 114, 73, 110, 116, 101, 114, 102, 97, 99, 101, 68, 101, 99, 108, 97, 114, 97, 116, 105, 111, 110>>,  \* LocalClassOrInterfaceDeclaration
  <<76, 111, 99, 97, 108, 86, 97, 114, 105, 97, 98, 108, 101, 68, 101, 99, 108, 97, 114, 97, 116, 105, 111, 110, 83, 116, 97, 116, 101, 109, 101, 110, 116>>,  \* LocalVariableDeclarationStatement
  <<76, 111, 99, 97, 108, 86, 97, 114, 105, 97, 98, 108, 101, 68, 101, 99, 108, 97, 114, 97, 116, 105, 111, 110>>,  \* LocalVariableDeclaration
  <<76, 111, 99, 97, 108, 86, 97, 114, 105, 97, 98, 108, 101, 84, 121, 112, 101>>,  \* LocalVariableType
  <<83, 116, 97, 116, 101, 109, 101, 110, 116>>,  \* Statement
  <<83, 116, 97, 116, 101, 109, 101, 110, 116, 78, 111, 83, 104, 111, 114, 116, 73, 102>>,  \* StatementNoShortIf
  <<83, 116, 97, 116, 101, 109, 101, 110, 116, 87, 105, 116, 104, 111, 117, 116, 84, 114, 97, 105, 108, 105, 110, 103, 83, 117, 98, 115, 116, 97, 116, 101, 109, 101, 110, 116>>,  \* StatementWithoutTrailingSubstatement
  <<69, 109, 112, 116, 121, 83, 116, 97, 116, 101, 109, 101, 110, 116>>,  \* EmptyStatement
  <<76, 97, 98, 101, 108, 101, 100, 83, 116, 97, 116, 101, 109, 101, 110, 116>>,  \* LabeledStatement
  <<76, 97, 98, 101, 108, 101, 100, 83, 116, 97, 116, 101, 109, 101, 110, 116, 78, 111, 83, 104, 111, 114, 116, 73, 102>>,  \* LabeledStatementNoShortIf
  <<69, 120, 112, 114, 101, 115, 115, 105, 111, 110, 83, 116, 97, 116, 101, 109, 101, 110, 116>>,  \* ExpressionStatement
  <<83, 116, 97, 116, 101, 109, 101, 110, 116, 69, 120, 112, 114, 101, 115, 115, 105, 111, 110>>,  \* StatementExpression
  <<73, 102, 84, 104, 101, 110, 83, 116, 97, 116, 101, 109, 101, 110, 116>>,  \* IfThenStatement
  <<73, 102, 84, 104, 101, 110, 69, 108, 115, 101, 83, 116, 97, 116, 101, 109, 101, 110, 116>>,  \* IfThenElseStatement
  <<73, 102, 84, 104, 101, 110, 69, 108, 115, 101, 83, 116, 97, 116, 101, 109, 101, 110, 116, 78, 111, 83, 104, 111, 114, 116, 73, 102>>,  \* IfThenElseStatementNoShortIf
  <<65, 115, 115, 101, 114, 116, 83, 116, 97, 116, 101, 109, 101, 110, 116>>,  \* AssertStatement
  <<83, 119, 105, 116, 99, 104, 83, 116, 97, 116, 101, 109, 101, 110, 116>>,  \* SwitchStatement
  <<83, 119, 105, 116, 99, 104, 66, 108, 111, 99, 107>>,  \* SwitchBlock
  <<83, 119, 105, 116, 99, 104, 82, 117, 108, 101>>,  \* SwitchRule
  <<83, 119, 105, 116, 99, 104, 66, 108, 111, 99, 107, 83, 116, 97, 116, 101, 109, 101, 110, 116, 71, 114, 111, 117, 112>>,  \* SwitchBlockStatementGroup
  <<83, 119, 105, 116, 99, 104, 76, 97, 98, 101, 108>>,  \* SwitchLabel
  <<67, 97, 115, 101, 67, 111, 110, 115, 116, 97, 110, 116>>,  \* CaseConstant
  <<67, 97, 115, 101, 80, 97, 116, 116, 101, 114, 110>>,  \* CasePattern
  <<71, 117, 97, 114, 100>>,  \* Guard
  <<87, 104, 105, 108, 101, 83, 116, 97, 116, 101, 109, 101, 110, 116>>,  \* WhileStatement
  <<87, 104, 105, 108, 101, 83, 116, 97, 116, 101, 109, 101, 110, 116, 78, 111, 83, 104, 111, 114, 116, 73, 102>>,  \* WhileStatementNoShortIf
  <<68, 111, 83, 116, 97, 116, 101, 109, 101, 110, 116>>,  \* DoStatement
  <<70, 111, 114, 83, 116, 97, 116, 101, 109, 101, 110, 116>>,  \* ForStatement
  <<70, 111, 114, 83, 116, 97, 116, 101, 109, 101, 110, 116, 78, 111, 83, 104, 111, 114, 116, 73, 102>>,  \* ForStatementNoShortIf
  <<66, 97, 115, 105, 99, 70, 111, 114, 83, 116, 97, 116, 101, 109, 101, 110, 116>>,  \* BasicForStatement
  <<66, 97, 115, 105, 99, 70, 111, 114, 83, 116, 97, 116, 101, 109, 101, 110, 116, 78, 111, 83, 104, 111, 114, 116, 73, 102>>,  \* BasicForStatementNoShortIf
  <<70, 111, 114, 73, 110, 105, 116>>,  \* ForInit
  <<70, 111, 114, 85, 112, 100, 97, 116, 101>>,  \* ForUpdate
  <<83, 116, 97, 116, 101, 109, 101, 110, 116, 69, 120, 112, 114, 101, 115, 115, 105, 111, 110, 76, 105, 115, 116>>,  \* StatementExpressionList
  <<69, 110, 104, 97, 110, 99, 101, 100, 70, 111, 114, 83, 116, 97, 116, 101, 109, 101, 110, 116>>,  \* EnhancedForStatement
  <<69, 110, 104, 97, 110, 99, 101, 100, 70, 111, 114, 83, 116, 97, 116, 101, 109, 101, 110, 116, 78, 111, 83, 104, 111, 114, 116, 73, 102>>,  \* EnhancedForStatementNoShortIf
  <<66, 114, 101, 97, 107, 83, 116, 97, 116, 101, 109, 101, 110, 116>>,  \* BreakStatement
  <<89, 105, 101, 108, 100, 83, 116, 97, 116, 101, 109, 101, 110, 116>>,  \* YieldStatement
  <<67, 111, 110, 116, 105, 110, 117, 101, 83, 116, 97, 116, 101, 109, 101, 110, 116>>,  \* ContinueStatement
  <<82, 101, 116, 117, 114, 110, 83, 116, 97, 116, 101, 109, 101, 110, 116>>,  \* ReturnStatement
  <<84, 104, 114, 111, 119, 83, 116, 97, 116, 101, 109, 101, 110, 116>>,  \* ThrowStatement
  <<83, 121, 110, 99, 104, 114, 111, 110, 105, 122, 101, 100, 83, 116, 97, 116, 101, 109, 101, 110, 116>>,  \* SynchronizedStatement
  <<84, 114, 121, 83, 116, 97, 116, 101, 109, 101, 110, 116>>,  \* TryStatement
  <<67, 97, 116, 99, 104, 101, 115>>,  \* Catches
  <<67, 97, 116, 99, 104, 67, 108, 97, 117, 115, 101>>,  \* CatchClause
  <<67, 97, 116, 99, 104, 70, 111, 114, 109, 97, 108, 80, 97, 114, 97, 109, 101, 116, 101, 114>>,  \* CatchFormalParameter
  <<67, 97, 116, 99, 104, 84, 121, 112, 101>>,  \* CatchType
  <<70, 105, 110, 97, 108, 108, 121>>,  \* Finally
  <<84, 114, 121, 87, 105, 116, 104, 82, 101, 115, 111, 117, 114, 99, 101, 115, 83, 116, 97, 116, 101, 109, 101, 110, 116>>,  \* TryWithResourcesStatement
  <<82, 101, 115, 111, 117, 114, 99, 101, 83, 112, 101, 99, 105, 102, 105, 99, 97, 116, 105, 111, 110>>,  \* ResourceSpecification
  <<82, 101, 115, 111, 117, 114, 99, 101, 76, 105, 115, 116>>,  \* ResourceList
  <<82, 101, 115, 111, 117, 114, 99, 101>>,  \* Resource
  <<86, 97, 114, 105, 97, 98, 108, 101, 65, 99, 99, 101, 115, 115>>,  \* VariableAccess
  <<80, 97, 116, 116, 101, 114, 110>>,  \* Pattern
  <<84, 121, 112, 101, 80, 97, 116, 116, 101, 114, 110>>,  \* TypePattern
  <<82, 101, 99, 111, 114, 100, 80, 97, 116, 116, 101, 114, 110>>,  \* RecordPattern
  <<67, 111, 109, 112, 111, 110, 101, 110, 116, 80, 97, 116, 116, 101, 114, 110, 76, 105, 115, 116>>,  \* ComponentPatternList
  <<67, 111, 109, 112, 111, 110, 101, 110, 116, 80, 97, 116, 116, 101, 114, 110>>,  \* ComponentPattern
  <<77, 97, 116, 99, 104, 65, 108, 108, 80, 97, 116, 116, 101, 114, 110>>,  \* MatchAllPattern
  <<80, 114, 105, 109, 97, 114, 121>>,  \* Primary
  <<80, 114, 105, 109, 97, 114, 121, 78, 111, 78, 101, 119, 65, 114, 114, 97, 121>>,  \* PrimaryNoNewArray
  <<67, 108, 97, 115, 115, 76, 105, 116, 101, 114, 97, 108>>,  \* ClassLiteral
  <<67, 108, 97, 115, 115, 73, 110, 115, 116, 97, 110, 99, 101, 67, 114, 101, 97, 116, 105, 111, 110, 69, 120, 112, 114, 101, 115, 115, 105, 111, 110>>,  \* ClassInstanceCreationExpression
  <<85, 110, 113, 117, 97, 108, 105, 102, 105, 101, 100, 67, 108, 97, 115, 115, 73, 110, 115, 116, 97, 110, 99, 101, 67, 114, 101, 97, 116, 105, 111, 110, 69, 120, 112, 114, 101, 115, 115, 105, 111, 110>>,  \* UnqualifiedClassInstanceCreationExpression
  <<67, 108, 97, 115, 115, 79, 114, 73, 110, 116, 101, 114, 102, 97, 99, 101, 84, 121, 112, 101, 84, 111, 73, 110, 115, 116, 97, 110, 116, 105, 97, 116, 101>>,  \* ClassOrInterfaceTypeToInstantiate
  <<84, 121, 112, 101, 65, 114, 103, 117, 109, 101, 110, 116, 115, 79, 114, 68, 105, 97, 109, 111, 110, 100>>,  \* TypeArgumentsOrDiamond
  <<65, 114, 114, 97, 121, 67, 114, 101, 97, 116, 105, 111, 110, 69, 120, 112, 114, 101, 115, 115, 105, 111, 110>>,  \* ArrayCreationExpression
  <<65, 114, 114, 97, 121, 67, 114, 101, 97, 116, 105, 111, 110, 69, 120, 112, 114, 101, 115, 115, 105, 111, 110, 87, 105, 116, 104, 111, 117, 116, 73, 110, 105, 116, 105, 97, 108, 105, 122, 101, 114>>,  \* ArrayCreationExpressionWithoutInitializer
  <<65, 114, 114, 97, 121, 67, 114, 101, 97, 116, 105, 111, 110, 69, 120, 112, 114, 101, 115, 115, 105, 111, 110, 87, 105, 116, 104, 73, 110, 105, 116, 105, 97, 108, 105, 122, 101, 114>>,  \* ArrayCreationExpressionWithInitializer
  <<68, 105, 109, 69, 120, 112, 114, 115>>,  \* DimExprs
  <<68, 105, 109, 69, 120, 112, 114>>,  \* DimExpr
  <<65, 114, 114, 97, 121, 65, 99, 99, 101, 115, 115>>,  \* ArrayAccess
  <<70, 105, 101, 108, 100, 65, 99, 99, 101, 115, 115>>,  \* FieldAccess
  <<77, 101, 116, 104, 111, 100, 73, 110, 118, 111, 99, 97, 116, 105, 111, 110>>,  \* MethodInvocation
  <<65, 114, 103, 117, 109, 101, 110, 116, 76, 105, 115, 116>>,  \* ArgumentList
  <<77, 101, 116, 104, 111, 100, 82, 101, 102, 101, 114, 101, 110, 99, 101>>,  \* MethodReference
  <<69, 120, 112, 114, 101, 115, 115, 105, 111, 110>>,  \* Expression
  <<76, 97, 109, 98, 100, 97, 69, 120, 112, 114, 101, 115, 115, 105, 111, 110>>,  \* LambdaExpression
  <<76, 97, 109, 98, 100, 97, 80, 97, 114, 97, 109, 101, 116, 101, 114, 115>>,  \* LambdaParameters
  <<76, 97, 109, 98, 100, 97, 80, 97, 114, 97, 109, 101, 116, 101, 114, 76, 105, 115, 116>>,  \* LambdaParameterList
  <<78, 111, 114, 109, 97, 108, 76, 97, 109, 98, 100, 97, 80, 97, 114, 97, 109, 101, 116, 101, 114>>,  \* NormalLambdaParameter
  <<76, 97, 109, 98, 100, 97, 80, 97, 114, 97, 109, 101, 116, 101, 114, 84, 121, 112, 101>>,  \* LambdaParameterType
  <<67, 111, 110, 99, 105, 115, 101, 76, 97, 109, 98, 100, 97, 80, 97, 114, 97, 109, 101, 116, 101, 114>>,  \* ConciseLambdaParameter
  <<76, 97, 109, 98, 100, 97, 66, 111, 100, 121>>,  \* LambdaBody
  <<65, 115, 115, 105, 103, 110, 109, 101, 110, 116, 69, 120, 112, 114, 101, 115, 115, 105, 111, 110>>,  \* AssignmentExpression
  <<65, 115, 115, 105, 103, 110, 109, 101, 110, 116>>,  \* Assignment
  <<76, 101, 102, 116, 72, 97, 110, 100, 83, 105, 100, 101>>,  \* LeftHandSide
  <<65, 115, 115, 105, 103, 110, 109, 101, 110, 116, 79, 112, 101, 114, 97, 116, 111, 114>>,  \* AssignmentOperator
  <<67, 111, 110, 100, 105, 116, 105, 111, 110, 97, 108, 69, 120, 112, 114, 101, 115, 115, 105, 111, 110>>,  \* ConditionalExpression
  <<67, 111, 110, 100, 105, 116, 105, 111, 110, 97, 108, 79, 114, 69, 120, 112, 114, 101, 115, 115, 105, 111, 110>>,  \* ConditionalOrExpression
  <<67, 111, 110, 100, 105, 116, 105, 111, 110, 97, 108, 65, 110, 100, 69, 120, 112, 114, 101, 115, 115, 105, 111, 110>>,  \* ConditionalAndExpression
  <<73, 110, 99, 108, 117, 115, 105, 118, 101, 79, 114, 69, 120, 112, 114, 101, 115, 115, 105, 111, 110>>,  \* InclusiveOrExpression
  <<69, 120, 99, 108, 117, 115, 105, 118, 101, 79, 114, 69, 120, 112, 114, 101, 115, 115, 105, 111, 110>>,  \* ExclusiveOrExpression
  <<65, 110, 100, 69, 120, 112, 114, 101, 115, 115, 105, 111, 110>>,  \* AndExpression
  <<69, 113, 117, 97, 108, 105, 116, 121, 69, 120, 112, 114, 101, 115, 115, 105, 111, 110>>,  \* EqualityExpression
  <<82, 101, 108, 97, 116, 105, 111, 110, 97, 108, 69, 120, 112, 114, 101, 115, 115, 105, 111, 110>>,  \* RelationalExpression
  <<73, 110, 115, 116, 97, 110, 99, 101, 111, 102, 69, 120, 112, 114, 101, 115, 115, 105, 111, 110>>,  \* InstanceofExpression
  <<83, 104, 105, 102, 116, 69, 120, 112, 114, 101, 115, 115, 105, 111, 110>>,  \* ShiftExpression
  <<65, 100, 100, 105, 116, 105, 118, 101, 69, 120, 112, 114, 101, 115, 115, 105, 111, 110>>,  \* AdditiveExpression
  <<77, 117, 108, 116, 105, 112, 108, 105, 99, 97, 116, 105, 118, 101, 69, 120, 112, 114, 101, 115, 115, 105, 111, 110>>,  \* MultiplicativeExpression
  <<85, 110, 97, 114, 121, 69, 120, 112, 114, 101, 115, 115, 105, 111, 110>>,  \* UnaryExpression
  <<80, 114, 101, 73, 110, 99, 114, 101, 109, 101, 110, 116, 69, 120, 112, 114, 101, 115, 115, 105, 111, 110>>,  \* PreIncrementExpression
  <<80, 114, 101, 68, 101, 99, 114, 101, 109, 101, 110, 116, 69, 120, 112, 114, 101, 115, 115, 105, 111, 110>>,  \* PreDecrementExpression
  <<85, 110, 97, 114, 121, 69, 120, 112, 114, 101, 115, 115, 105, 111, 110, 78, 111, 116, 80, 108, 117, 115, 77, 105, 110, 117, 115>>,  \* UnaryExpressionNotPlusMinus
  <<80, 111, 115, 116, 102, 105, 120, 69, 120, 112, 114, 101, 115, 115, 105, 111, 110>>,  \* PostfixExpression
  <<80, 111, 115, 116, 73, 110, 99, 114, 101, 109, 101, 110, 116, 69, 120, 112, 114, 101, 115, 115, 105, 111, 110>>,  \* PostIncrementExpression
  <<80, 111, 115, 116, 68, 101, 99, 114, 101, 109, 101, 110, 116, 69, 120, 112, 114, 101, 115, 115, 105, 111, 110>>,  \* PostDecrementExpression
  <<67, 97, 115, 116, 69, 120, 112, 114, 101, 115, 115, 105, 111, 110>>,  \* CastExpression
  <<83, 119, 105, 116, 99, 104, 69, 120, 112, 114, 101, 115, 115, 105, 111, 110>>  \* SwitchExpression
>>

\* how many of a file's leading entries an edit may lose, one at a time
MaxDrift == 3

\* the list without its i-th entry
Drop(keys, i) == SubSeq(keys, 1, i - 1) \o SubSeq(keys, i + 1, Len(keys))

\* the file as committed, or with one entry lost, readable or not
RepoFiles(keys) ==
  [readable : BOOLEAN,
   matches : {keys} \cup { Drop(keys, i) : i \in 1..MaxDrift }]

\* java25Grammar.ts: SECTION_ORDER
RepoSectionOrder ==
  <<"lexical", "types", "names", "packages", "classes",
    "interfaces", "arrays", "statements", "expressions">>

\* java25Grammar.ts: SECTION_RULES, the rule names of each section in order
RepoSectionRules ==
  [lexical |-> <<
     <<73, 100, 101, 110, 116, 105, 102, 105, 101, 114>>,  \* Identifier
     \* IdentifierChars
     <<73, 100, 101, 110, 116, 105, 102, 105, 101, 114, 67, 104, 97, 114,
       115>>,
     <<74, 97, 118, 97, 76, 101, 116, 116, 101, 114>>,  \* JavaLetter
     \* JavaLetterOrDigit
     <<74, 97, 118, 97, 76, 101, 116, 116, 101, 114, 79, 114, 68, 105, 103,
       105, 116>>,
     \* TypeIdentifier
     <<84, 121, 112, 101, 73, 100, 101, 110, 116, 105, 102, 105, 101, 114>>,
     \* UnqualifiedMethodIdentifier
     <<85, 110, 113, 117, 97, 108, 105, 102, 105, 101, 100, 77, 101, 116, 104,
       111, 100, 73, 100, 101, 110, 116, 105, 102, 105, 101, 114>>,
     <<76, 105, 116, 101, 114, 97, 108>>  \* Literal
   >>,
   types |-> <<
     <<84, 121, 112, 101>>,  \* Type
     \* PrimitiveType
     <<80, 114, 105, 109, 105, 116, 105, 118, 101, 84, 121, 112, 101>>,
     <<78, 117, 109, 101, 114, 105, 99, 84, 121, 112, 101>>,  \* NumericType
     <<73, 110, 116, 101, 103, 114, 97, 108, 84, 121, 112, 101>>,  \* IntegralType
     \* FloatingPointType
     <<70, 108, 111, 97, 116, 105, 110, 103, 80, 111, 105, 110, 116, 84, 121,
       112, 101>>,
     \* ReferenceType
     <<82, 101, 102, 101, 114, 101, 110, 99, 101, 84, 121, 112, 101>>,
     \* ClassOrInterfaceType
     <<67, 108, 97, 115, 115, 79, 114, 73, 110, 116, 101, 114, 102, 97, 99,
       101, 84, 121, 112, 101>>,
     <<67, 108, 97, 115, 115, 84, 121, 112, 101>>,  \* ClassType
     \* InterfaceType
     <<73, 110, 116, 101, 114, 102, 97, 99, 101, 84, 121, 112, 101>>,
     <<84, 121, 112, 101, 86, 97, 114, 105, 97, 98, 108, 101>>,  \* TypeVariable
     <<65, 114, 114, 97, 121, 84, 121, 112, 101>>,  \* ArrayType
     <<68, 105, 109, 115>>,  \* Dims
     \* TypeParameter
     <<84, 121, 112, 101, 80, 97, 114, 97, 109, 101, 116, 101, 114>>,
     \* TypeParameterModifier
     <<84, 121, 112, 101, 80, 97, 114, 97, 109, 101, 116, 101, 114, 77, 111,
       100, 105, 102, 105, 101, 114>>,
     <<84, 121, 112, 101, 66, 111, 117, 110, 100>>,  \* TypeBound
     \* AdditionalBound
     <<65, 100, 100, 105, 116, 105, 111, 110, 97, 108, 66, 111, 117, 110,
       100>>,
     \* TypeArguments
     <<84, 121, 112, 101, 65, 114, 103, 117, 109, 101, 110, 116, 115>>,
     \* TypeArgumentList
     <<84, 121, 112, 101, 65, 114, 103, 117, 109, 101, 110, 116, 76, 105, 115,
       116>>,
     \* TypeArgument
     <<84, 121, 112, 101, 65, 114, 103, 117, 109, 101, 110, 116>>,
     <<87, 105, 108, 100, 99, 97, 114, 100>>,  \* Wildcard
     \* WildcardBounds
     <<87, 105, 108, 100, 99, 97, 114, 100, 66, 111, 117, 110, 100, 115>>
   >>,
   names |-> <<
     <<77, 111, 100, 117, 108, 101, 78, 97, 109, 101>>,  \* ModuleName
     <<80, 97, 99, 107, 97, 103, 101, 78, 97, 109, 101>>,  \* PackageName
     <<84, 121, 112, 101, 78, 97, 109, 101>>,  \* TypeName
     \* ExpressionName
     <<69, 120, 112, 114, 101, 115, 115, 105, 111, 110, 78, 97, 109, 101>>,
     <<77, 101, 116, 104, 111, 100, 78, 97, 109, 101>>,  \* MethodName
     \* PackageOrTypeName
     <<80, 97, 99, 107, 97, 103, 101, 79, 114, 84, 121, 112, 101, 78, 97, 109,
       101>>,
     \* AmbiguousName
     <<65, 109, 98, 105, 103, 117, 111, 117, 115, 78, 97, 109, 101>>
   >>,
   packages |-> <<
     \* CompilationUnit
     <<67, 111, 109, 112, 105, 108, 97, 116, 105, 111, 110, 85, 110, 105,
       116>>,
     \* OrdinaryCompilationUnit
     <<79, 114, 100, 105, 110, 97, 114, 121, 67, 111, 109, 112, 105, 108, 97,
       116, 105, 111, 110, 85, 110, 105, 116>>,
     \* ModularCompilationUnit
     <<77, 111, 100, 117, 108, 97, 114, 67, 111, 109, 112, 105, 108, 97, 116,
       105, 111, 110, 85, 110, 105, 116>>,
     \* PackageDeclaration
     <<80, 97, 99, 107, 97, 103, 101, 68, 101, 99, 108, 97, 114, 97, 116, 105,
       111, 110>>,
     \* PackageModifier
     <<80, 97, 99, 107, 97, 103, 101, 77, 111, 100, 105, 102, 105, 101, 114>>,
     \* ImportDeclaration
     <<73, 109, 112, 111, 114, 116, 68, 101, 99, 108, 97, 114, 97, 116, 105,
       111, 110>>,
     \* SingleTypeImportDeclaration
     <<83, 105, 110, 103, 108, 101, 84, 121, 112, 101, 73, 109, 112, 111, 114,
       116, 68, 101, 99, 108, 97, 114, 97, 116, 105, 111, 110>>,
     \* TypeImportOnDemandDeclaration
     <<84, 121, 112, 101, 73, 109, 112, 111, 114, 116, 79, 110, 68, 101, 109,
       97, 110, 100, 68, 101, 99, 108, 97, 114, 97, 116, 105, 111, 110>>,
     \* SingleStaticImportDeclaration
     <<83, 105, 110, 103, 108, 101, 83, 116, 97, 116, 105, 99, 73, 109, 112,
       111, 114, 116, 68, 101, 99, 108, 97, 114, 97, 116, 105, 111, 110>>,
     \* StaticImportOnDemandDeclaration
     <<83, 116, 97, 116, 105, 99, 73, 109, 112, 111, 114, 116, 79, 110, 68,
       101, 109, 97, 110, 100, 68, 101, 99, 108, 97, 114, 97, 116, 105, 111,
       110>>,
     \* SingleModuleImportDeclaration
     <<83, 105, 110, 103, 108, 101, 77, 111, 100, 117, 108, 101, 73, 109, 112,
       111, 114, 116, 68, 101, 99, 108, 97, 114, 97, 116, 105, 111, 110>>,
     \* TopLevelClassOrInterfaceDeclaration
     <<84, 111, 112, 76, 101, 118, 101, 108, 67, 108, 97, 115, 115, 79, 114,
       73, 110, 116, 101, 114, 102, 97, 99, 101, 68, 101, 99, 108, 97, 114, 97,
       116, 105, 111, 110>>,
     \* ModuleDeclaration
     <<77, 111, 100, 117, 108, 101, 68, 101, 99, 108, 97, 114, 97, 116, 105,
       111, 110>>,
     \* ModuleDirective
     <<77, 111, 100, 117, 108, 101, 68, 105, 114, 101, 99, 116, 105, 118,
       101>>,
     \* RequiresModifier
     <<82, 101, 113, 117, 105, 114, 101, 115, 77, 111, 100, 105, 102, 105, 101,
       114>>
   >>,
   classes |-> <<
     \* ClassDeclaration
     <<67, 108, 97, 115, 115, 68, 101, 99, 108, 97, 114, 97, 116, 105, 111,
       110>>,
     \* NormalClassDeclaration
     <<78, 111, 114, 109, 97, 108, 67, 108, 97, 115, 115, 68, 101, 99, 108, 97,
       114, 97, 116, 105, 111, 110>>,
     \* ClassModifier
     <<67, 108, 97, 115, 115, 77, 111, 100, 105, 102, 105, 101, 114>>,
     \* TypeParameters
     <<84, 121, 112, 101, 80, 97, 114, 97, 109, 101, 116, 101, 114, 115>>,
     \* TypeParameterList
     <<84, 121, 112, 101, 80, 97, 114, 97, 109, 101, 116, 101, 114, 76, 105,
       115, 116>>,
     <<67, 108, 97, 115, 115, 69, 120, 116, 101, 110, 100, 115>>,  \* ClassExtends
     \* ClassImplements
     <<67, 108, 97, 115, 115, 73, 109, 112, 108, 101, 109, 101, 110, 116,
       115>>,
     \* InterfaceTypeList
     <<73, 110, 116, 101, 114, 102, 97, 99, 101, 84, 121, 112, 101, 76, 105,
       115, 116>>,
     <<67, 108, 97, 115, 115, 80, 101, 114, 109, 105, 116, 115>>,  \* ClassPermits
     <<67, 108, 97, 115, 115, 66, 111, 100, 121>>,  \* ClassBody
     \* ClassBodyDeclaration
     <<67, 108, 97, 115, 115, 66, 111, 100, 121, 68, 101, 99, 108, 97, 114, 97,
       116, 105, 111, 110>>,
     \* ClassMemberDeclaration
     <<67, 108, 97, 115, 115, 77, 101, 109, 98, 101, 114, 68, 101, 99, 108, 97,
       114, 97, 116, 105, 111, 110>>,
     \* FieldDeclaration
     <<70, 105, 101, 108, 100, 68, 101, 99, 108, 97, 114, 97, 116, 105, 111,
       110>>,
     \* FieldModifier
     <<70, 105, 101, 108, 100, 77, 111, 100, 105, 102, 105, 101, 114>>,
     \* VariableDeclaratorList
     <<86, 97, 114, 105, 97, 98, 108, 101, 68, 101, 99, 108, 97, 114, 97, 116,
       111, 114, 76, 105, 115, 116>>,
     \* VariableDeclarator
     <<86, 97, 114, 105, 97, 98, 108, 101, 68, 101, 99, 108, 97, 114, 97, 116,
       111, 114>>,
     \* VariableDeclaratorId
     <<86, 97, 114, 105, 97, 98, 108, 101, 68, 101, 99, 108, 97, 114, 97, 116,
       111, 114, 73, 100>>,
     \* VariableInitializer
     <<86, 97, 114, 105, 97, 98, 108, 101, 73, 110, 105, 116, 105, 97, 108,
       105, 122, 101, 114>>,
     <<85, 110, 97, 110, 110, 84, 121, 112, 101>>,  \* UnannType
     \* UnannPrimitiveType
     <<85, 110, 97, 110, 110, 80, 114, 105, 109, 105, 116, 105, 118, 101, 84,
       121, 112, 101>>,
     \* UnannReferenceType
     <<85, 110, 97, 110, 110, 82, 101, 102, 101, 114, 101, 110, 99, 101, 84,
       121, 112, 101>>,
     \* UnannClassOrInterfaceType
     <<85, 110, 97, 110, 110, 67, 108, 97, 115, 115, 79, 114, 73, 110, 116,
       101, 114, 102, 97, 99, 101, 84, 121, 112, 101>>,
     \* UnannClassType
     <<85, 110, 97, 110, 110, 67, 108, 97, 115, 115, 84, 121, 112, 101>>,
     \* UnannInterfaceType
     <<85, 110, 97, 110, 110, 73, 110, 116, 101, 114, 102, 97, 99, 101, 84,
       121, 112, 101>>,
     \* UnannTypeVariable
     <<85, 110, 97, 110, 110, 84, 121, 112, 101, 86, 97, 114, 105, 97, 98, 108,
       101>>,
     \* UnannArrayType
     <<85, 110, 97, 110, 110, 65, 114, 114, 97, 121, 84, 121, 112, 101>>,
     \* MethodDeclaration
     <<77, 101, 116, 104, 111, 100, 68, 101, 99, 108, 97, 114, 97, 116, 105,
       111, 110>>,
     \* MethodModifier
     <<77, 101, 116, 104, 111, 100, 77, 111, 100, 105, 102, 105, 101, 114>>,
     <<77, 101, 116, 104, 111, 100, 72, 101, 97, 100, 101, 114>>,  \* MethodHeader
     <<82, 101, 115, 117, 108, 116>>,  \* Result
     \* MethodDeclarator
     <<77, 101, 116, 104, 111, 100, 68, 101, 99, 108, 97, 114, 97, 116, 111,
       114>>,
     \* ReceiverParameter
     <<82, 101, 99, 101, 105, 118, 101, 114, 80, 97, 114, 97, 109, 101, 116,
       101, 114>>,
     \* FormalParameterList
     <<70, 111, 114, 109, 97, 108, 80, 97, 114, 97, 109, 101, 116, 101, 114,
       76, 105, 115, 116>>,
     \* FormalParameter
     <<70, 111, 114, 109, 97, 108, 80, 97, 114, 97, 109, 101, 116, 101, 114>>,
     \* VariableArityParameter
     <<86, 97, 114, 105, 97, 98, 108, 101, 65, 114, 105, 116, 121, 80, 97, 114,
       97, 109, 101, 116, 101, 114>>,
     \* VariableModifier
     <<86, 97, 114, 105, 97, 98, 108, 101, 77, 111, 100, 105, 102, 105, 101,
       114>>,
     <<84, 104, 114, 111, 119, 115>>,  \* Throws
     \* ExceptionTypeList
     <<69, 120, 99, 101, 112, 116, 105, 111, 110, 84, 121, 112, 101, 76, 105,
       115, 116>>,
     \* ExceptionType
     <<69, 120, 99, 101, 112, 116, 105, 111, 110, 84, 121, 112, 101>>,
     <<77, 101, 116, 104, 111, 100, 66, 111, 100, 121>>,  \* MethodBody
     \* InstanceInitializer
     <<73, 110, 115, 116, 97, 110, 99, 101, 73, 110, 105, 116, 105, 97, 108,
       105, 122, 101, 114>>,
     \* StaticInitializer
     <<83, 116, 97, 116, 105, 99, 73, 110, 105, 116, 105, 97, 108, 105, 122,
       101, 114>>,
     \* ConstructorDeclaration
     <<67, 111, 110, 115, 116, 114, 117, 99, 116, 111, 114, 68, 101, 99, 108,
       97, 114, 97, 116, 105, 111, 110>>,
     \* ConstructorModifier
     <<67, 111, 110, 115, 116, 114, 117, 99, 116, 111, 114, 77, 111, 100, 105,
       102, 105, 101, 114>>,
     \* ConstructorDeclarator
     <<67, 111, 110, 115, 116, 114, 117, 99, 116, 111, 114, 68, 101, 99, 108,
       97, 114, 97, 116, 111, 114>>,
     \* SimpleTypeName
     <<83, 105, 109, 112, 108, 101, 84, 121, 112, 101, 78, 97, 109, 101>>,
     \* ConstructorBody
     <<67, 111, 110, 115, 116, 114, 117, 99, 116, 111, 114, 66, 111, 100,
       121>>,
     \* ConstructorInvocation
     <<67, 111, 110, 115, 116, 114, 117, 99, 116, 111, 114, 73, 110, 118, 111,
       99, 97, 116, 105, 111, 110>>,
     \* EnumDeclaration
     <<69, 110, 117, 109, 68, 101, 99, 108, 97, 114, 97, 116, 105, 111, 110>>,
     <<69, 110, 117, 109, 66, 111, 100, 121>>,  \* EnumBody
     \* EnumConstantList
     <<69, 110, 117, 109, 67, 111, 110, 115, 116, 97, 110, 116, 76, 105, 115,
       116>>,
     <<69, 110, 117, 109, 67, 111, 110, 115, 116, 97, 110, 116>>,  \* EnumConstant
     \* EnumConstantModifier
     <<69, 110, 117, 109, 67, 111, 110, 115, 116, 97, 110, 116, 77, 111, 100,
       105, 102, 105, 101, 114>>,
     \* EnumBodyDeclarations
     <<69, 110, 117, 109, 66, 111, 100, 121, 68, 101, 99, 108, 97, 114, 97,
       116, 105, 111, 110, 115>>,
     \* RecordDeclaration
     <<82, 101, 99, 111, 114, 100, 68, 101, 99, 108, 97, 114, 97, 116, 105,
       111, 110>>,
     <<82, 101, 99, 111, 114, 100, 72, 101, 97, 100, 101, 114>>,  \* RecordHeader
     \* RecordComponentList
     <<82, 101, 99, 111, 114, 100, 67, 111, 109, 112, 111, 110, 101, 110, 116,
       76, 105, 115, 116>>,
     \* RecordComponent
     <<82, 101, 99, 111, 114, 100, 67, 111, 109, 112, 111, 110, 101, 110,
       116>>,
     \* VariableArityRecordComponent
     <<86, 97, 114, 105, 97, 98, 108, 101, 65, 114, 105, 116, 121, 82, 101, 99,
       111, 114, 100, 67, 111, 109, 112, 111, 110, 101, 110, 116>>,
     \* RecordComponentModifier
     <<82, 101, 99, 111, 114, 100, 67, 111, 109, 112, 111, 110, 101, 110, 116,
       77, 111, 100, 105, 102, 105, 101, 114>>,
     <<82, 101, 99, 111, 114, 100, 66, 111, 100, 121>>,  \* RecordBody
     \* RecordBodyDeclaration
     <<82, 101, 99, 111, 114, 100, 66, 111, 100, 121, 68, 101, 99, 108, 97,
       114, 97, 116, 105, 111, 110>>,
     \* CompactConstructorDeclaration
     <<67, 111, 109, 112, 97, 99, 116, 67, 111, 110, 115, 116, 114, 117, 99,
       116, 111, 114, 68, 101, 99, 108, 97, 114, 97, 116, 105, 111, 110>>
   >>,
   interfaces |-> <<
     \* InterfaceDeclaration
     <<73, 110, 116, 101, 114, 102, 97, 99, 101, 68, 101, 99, 108, 97, 114, 97,
       116, 105, 111, 110>>,
     \* NormalInterfaceDeclaration
     <<78, 111, 114, 109, 97, 108, 73, 110, 116, 101, 114, 102, 97, 99, 101,
       68, 101, 99, 108, 97, 114, 97, 116, 105, 111, 110>>,
     \* InterfaceModifier
     <<73, 110, 116, 101, 114, 102, 97, 99, 101, 77, 111, 100, 105, 102, 105,
       101, 114>>,
     \* InterfaceExtends
     <<73, 110, 116, 101, 114, 102, 97, 99, 101, 69, 120, 116, 101, 110, 100,
       115>>,
     \* InterfacePermits
     <<73, 110, 116, 101, 114, 102, 97, 99, 101, 80, 101, 114, 109, 105, 116,
       115>>,
     \* InterfaceBody
     <<73, 110, 116, 101, 114, 102, 97, 99, 101, 66, 111, 100, 121>>,
     \* InterfaceMemberDeclaration
     <<73, 110, 116, 101, 114, 102, 97, 99, 101, 77, 101, 109, 98, 101, 114,
       68, 101, 99, 108, 97, 114, 97, 116, 105, 111, 110>>,
     \* ConstantDeclaration
     <<67, 111, 110, 115, 116, 97, 110, 116, 68, 101, 99, 108, 97, 114, 97,
       116, 105, 111, 110>>,
     \* ConstantModifier
     <<67, 111, 110, 115, 116, 97, 110, 116, 77, 111, 100, 105, 102, 105, 101,
       114>>,
     \* InterfaceMethodDeclaration
     <<73, 110, 116, 101, 114, 102, 97, 99, 101, 77, 101, 116, 104, 111, 100,
       68, 101, 99, 108, 97, 114, 97, 116, 105, 111, 110>>,
     \* InterfaceMethodModifier
     <<73, 110, 116, 101, 114, 102, 97, 99, 101, 77, 101, 116, 104, 111, 100,
       77, 111, 100, 105, 102, 105, 101, 114>>,
     \* AnnotationInterfaceDeclaration
     <<65, 110, 110, 111, 116, 97, 116, 105, 111, 110, 73, 110, 116, 101, 114,
       102, 97, 99, 101, 68, 101, 99, 108, 97, 114, 97, 116, 105, 111, 110>>,
     \* AnnotationInterfaceBody
     <<65, 110, 110, 111, 116, 97, 116, 105, 111, 110, 73, 110, 116, 101, 114,
       102, 97, 99, 101, 66, 111, 100, 121>>,
     \* AnnotationInterfaceMemberDeclaration
     <<65, 110, 110, 111, 116, 97, 116, 105, 111, 110, 73, 110, 116, 101, 114,
       102, 97, 99, 101, 77, 101, 109, 98, 101, 114, 68, 101, 99, 108, 97, 114,
       97, 116, 105, 111, 110>>,
     \* AnnotationInterfaceElementDeclaration
     <<65, 110, 110, 111, 116, 97, 116, 105, 111, 110, 73, 110, 116, 101, 114,
       102, 97, 99, 101, 69, 108, 101, 109, 101, 110, 116, 68, 101, 99, 108,
       97, 114, 97, 116, 105, 111, 110>>,
     \* AnnotationInterfaceElementModifier
     <<65, 110, 110, 111, 116, 97, 116, 105, 111, 110, 73, 110, 116, 101, 114,
       102, 97, 99, 101, 69, 108, 101, 109, 101, 110, 116, 77, 111, 100, 105,
       102, 105, 101, 114>>,
     <<68, 101, 102, 97, 117, 108, 116, 86, 97, 108, 117, 101>>,  \* DefaultValue
     <<65, 110, 110, 111, 116, 97, 116, 105, 111, 110>>,  \* Annotation
     \* NormalAnnotation
     <<78, 111, 114, 109, 97, 108, 65, 110, 110, 111, 116, 97, 116, 105, 111,
       110>>,
     \* ElementValuePairList
     <<69, 108, 101, 109, 101, 110, 116, 86, 97, 108, 117, 101, 80, 97, 105,
       114, 76, 105, 115, 116>>,
     \* ElementValuePair
     <<69, 108, 101, 109, 101, 110, 116, 86, 97, 108, 117, 101, 80, 97, 105,
       114>>,
     <<69, 108, 101, 109, 101, 110, 116, 86, 97, 108, 117, 101>>,  \* ElementValue
     \* ElementValueArrayInitializer
     <<69, 108, 101, 109, 101, 110, 116, 86, 97, 108, 117, 101, 65, 114, 114,
       97, 121, 73, 110, 105, 116, 105, 97, 108, 105, 122, 101, 114>>,
     \* ElementValueList
     <<69, 108, 101, 109, 101, 110, 116, 86, 97, 108, 117, 101, 76, 105, 115,
       116>>,
     \* MarkerAnnotation
     <<77, 97, 114, 107, 101, 114, 65, 110, 110, 111, 116, 97, 116, 105, 111,
       110>>,
     \* SingleElementAnnotation
     <<83, 105, 110, 103, 108, 101, 69, 108, 101, 109, 101, 110, 116, 65, 110,
       110, 111, 116, 97, 116, 105, 111, 110>>
   >>,
   arrays |-> <<
     \* ArrayInitializer
     <<65, 114, 114, 97, 121, 73, 110, 105, 116, 105, 97, 108, 105, 122, 101,
       114>>,
     \* VariableInitializerList
     <<86, 97, 114, 105, 97, 98, 108, 101, 73, 110, 105, 116, 105, 97, 108,
       105, 122, 101, 114, 76, 105, 115, 116>>
   >>,
   statements |-> <<
     <<66, 108, 111, 99, 107>>,  \* Block
     \* BlockStatements
     <<66, 108, 111, 99, 107, 83, 116, 97, 116, 101, 109, 101, 110, 116, 115>>,
     \* BlockStatement
     <<66, 108, 111, 99, 107, 83, 116, 97, 116, 101, 109, 101, 110, 116>>,
     \* LocalClassOrInterfaceDeclaration
     <<76, 111, 99, 97, 108, 67, 108, 97, 115, 115, 79, 114, 73, 110, 116, 101,
       114, 102, 97, 99, 101, 68, 101, 99, 108, 97, 114, 97, 116, 105, 111,
       110>>,
     \* LocalVariableDeclarationStatement
     <<76, 111, 99, 97, 108, 86, 97, 114, 105, 97, 98, 108, 101, 68, 101, 99,
       108, 97, 114, 97, 116, 105, 111, 110, 83, 116, 97, 116, 101, 109, 101,
       110, 116>>,
     \* LocalVariableDeclaration
     <<76, 111, 99, 97, 108, 86, 97, 114, 105, 97, 98, 108, 101, 68, 101, 99,
       108, 97, 114, 97, 116, 105, 111, 110>>,
     \* LocalVariableType
     <<76, 111, 99, 97, 108, 86, 97, 114, 105, 97, 98, 108, 101, 84, 121, 112,
       101>>,
     <<83, 116, 97, 116, 101, 109, 101, 110, 116>>,  \* Statement
     \* StatementNoShortIf
     <<83, 116, 97, 116, 101, 109, 101, 110, 116, 78, 111, 83, 104, 111, 114,
       116, 73, 102>>,
     \* StatementWithoutTrailingSubstatement
     <<83, 116, 97, 116, 101, 109, 101, 110, 116, 87, 105, 116, 104, 111, 117,
       116, 84, 114, 97, 105, 108, 105, 110, 103, 83, 117, 98, 115, 116, 97,
       116, 101, 109, 101, 110, 116>>,
     \* EmptyStatement
     <<69, 109, 112, 116, 121, 83, 116, 97, 116, 101, 109, 101, 110, 116>>,
     \* LabeledStatement
     <<76, 97, 98, 101, 108, 101, 100, 83, 116, 97, 116, 101, 109, 101, 110,
       116>>,
     \* LabeledStatementNoShortIf
     <<76, 97, 98, 101, 108, 101, 100, 83, 116, 97, 116, 101, 109, 101, 110,
       116, 78, 111, 83, 104, 111, 114, 116, 73, 102>>,
     \* ExpressionStatement
     <<69, 120, 112, 114, 101, 115, 115, 105, 111, 110, 83, 116, 97, 116, 101,
       109, 101, 110, 116>>,
     \* StatementExpression
     <<83, 116, 97, 116, 101, 109, 101, 110, 116, 69, 120, 112, 114, 101, 115,
       115, 105, 111, 110>>,
     \* IfThenStatement
     <<73, 102, 84, 104, 101, 110, 83, 116, 97, 116, 101, 109, 101, 110, 116>>,
     \* IfThenElseStatement
     <<73, 102, 84, 104, 101, 110, 69, 108, 115, 101, 83, 116, 97, 116, 101,
       109, 101, 110, 116>>,
     \* IfThenElseStatementNoShortIf
     <<73, 102, 84, 104, 101, 110, 69, 108, 115, 101, 83, 116, 97, 116, 101,
       109, 101, 110, 116, 78, 111, 83, 104, 111, 114, 116, 73, 102>>,
     \* AssertStatement
     <<65, 115, 115, 101, 114, 116, 83, 116, 97, 116, 101, 109, 101, 110,
       116>>,
     \* SwitchStatement
     <<83, 119, 105, 116, 99, 104, 83, 116, 97, 116, 101, 109, 101, 110, 116>>,
     <<83, 119, 105, 116, 99, 104, 66, 108, 111, 99, 107>>,  \* SwitchBlock
     <<83, 119, 105, 116, 99, 104, 82, 117, 108, 101>>,  \* SwitchRule
     \* SwitchBlockStatementGroup
     <<83, 119, 105, 116, 99, 104, 66, 108, 111, 99, 107, 83, 116, 97, 116,
       101, 109, 101, 110, 116, 71, 114, 111, 117, 112>>,
     <<83, 119, 105, 116, 99, 104, 76, 97, 98, 101, 108>>,  \* SwitchLabel
     <<67, 97, 115, 101, 67, 111, 110, 115, 116, 97, 110, 116>>,  \* CaseConstant
     <<67, 97, 115, 101, 80, 97, 116, 116, 101, 114, 110>>,  \* CasePattern
     <<71, 117, 97, 114, 100>>,  \* Guard
     \* WhileStatement
     <<87, 104, 105, 108, 101, 83, 116, 97, 116, 101, 109, 101, 110, 116>>,
     \* WhileStatementNoShortIf
     <<87, 104, 105, 108, 101, 83, 116, 97, 116, 101, 109, 101, 110, 116, 78,
       111, 83, 104, 111, 114, 116, 73, 102>>,
     <<68, 111, 83, 116, 97, 116, 101, 109, 101, 110, 116>>,  \* DoStatement
     <<70, 111, 114, 83, 116, 97, 116, 101, 109, 101, 110, 116>>,  \* ForStatement
     \* ForStatementNoShortIf
     <<70, 111, 114, 83, 116, 97, 116, 101, 109, 101, 110, 116, 78, 111, 83,
       104, 111, 114, 116, 73, 102>>,
     \* BasicForStatement
     <<66, 97, 115, 105, 99, 70, 111, 114, 83, 116, 97, 116, 101, 109, 101,
       110, 116>>,
     \* BasicForStatementNoShortIf
     <<66, 97, 115, 105, 99, 70, 111, 114, 83, 116, 97, 116, 101, 109, 101,
       110, 116, 78, 111, 83, 104, 111, 114, 116, 73, 102>>,
     <<70, 111, 114, 73, 110, 105, 116>>,  \* ForInit
     <<70, 111, 114, 85, 112, 100, 97, 116, 101>>,  \* ForUpdate
     \* StatementExpressionList
     <<83, 116, 97, 116, 101, 109, 101, 110, 116, 69, 120, 112, 114, 101, 115,
       115, 105, 111, 110, 76, 105, 115, 116>>,
     \* EnhancedForStatement
     <<69, 110, 104, 97, 110, 99, 101, 100, 70, 111, 114, 83, 116, 97, 116,
       101, 109, 101, 110, 116>>,
     \* EnhancedForStatementNoShortIf
     <<69, 110, 104, 97, 110, 99, 101, 100, 70, 111, 114, 83, 116, 97, 116,
       101, 109, 101, 110, 116, 78, 111, 83, 104, 111, 114, 116, 73, 102>>,
     \* BreakStatement
     <<66, 114, 101, 97, 107, 83, 116, 97, 116, 101, 109, 101, 110, 116>>,
     \* YieldStatement
     <<89, 105, 101, 108, 100, 83, 116, 97, 116, 101, 109, 101, 110, 116>>,
     \* ContinueStatement
     <<67, 111, 110, 116, 105, 110, 117, 101, 83, 116, 97, 116, 101, 109, 101,
       110, 116>>,
     \* ReturnStatement
     <<82, 101, 116, 117, 114, 110, 83, 116, 97, 116, 101, 109, 101, 110,
       116>>,
     \* ThrowStatement
     <<84, 104, 114, 111, 119, 83, 116, 97, 116, 101, 109, 101, 110, 116>>,
     \* SynchronizedStatement
     <<83, 121, 110, 99, 104, 114, 111, 110, 105, 122, 101, 100, 83, 116, 97,
       116, 101, 109, 101, 110, 116>>,
     <<84, 114, 121, 83, 116, 97, 116, 101, 109, 101, 110, 116>>,  \* TryStatement
     <<67, 97, 116, 99, 104, 101, 115>>,  \* Catches
     <<67, 97, 116, 99, 104, 67, 108, 97, 117, 115, 101>>,  \* CatchClause
     \* CatchFormalParameter
     <<67, 97, 116, 99, 104, 70, 111, 114, 109, 97, 108, 80, 97, 114, 97, 109,
       101, 116, 101, 114>>,
     <<67, 97, 116, 99, 104, 84, 121, 112, 101>>,  \* CatchType
     <<70, 105, 110, 97, 108, 108, 121>>,  \* Finally
     \* TryWithResourcesStatement
     <<84, 114, 121, 87, 105, 116, 104, 82, 101, 115, 111, 117, 114, 99, 101,
       115, 83, 116, 97, 116, 101, 109, 101, 110, 116>>,
     \* ResourceSpecification
     <<82, 101, 115, 111, 117, 114, 99, 101, 83, 112, 101, 99, 105, 102, 105,
       99, 97, 116, 105, 111, 110>>,
     <<82, 101, 115, 111, 117, 114, 99, 101, 76, 105, 115, 116>>,  \* ResourceList
     <<82, 101, 115, 111, 117, 114, 99, 101>>,  \* Resource
     \* VariableAccess
     <<86, 97, 114, 105, 97, 98, 108, 101, 65, 99, 99, 101, 115, 115>>,
     <<80, 97, 116, 116, 101, 114, 110>>,  \* Pattern
     <<84, 121, 112, 101, 80, 97, 116, 116, 101, 114, 110>>,  \* TypePattern
     \* RecordPattern
     <<82, 101, 99, 111, 114, 100, 80, 97, 116, 116, 101, 114, 110>>,
     \* ComponentPatternList
     <<67, 111, 109, 112, 111, 110, 101, 110, 116, 80, 97, 116, 116, 101, 114,
       110, 76, 105, 115, 116>>,
     \* ComponentPattern
     <<67, 111, 109, 112, 111, 110, 101, 110, 116, 80, 97, 116, 116, 101, 114,
       110>>,
     \* MatchAllPattern
     <<77, 97, 116, 99, 104, 65, 108, 108, 80, 97, 116, 116, 101, 114, 110>>
   >>,
   expressions |-> <<
     <<80, 114, 105, 109, 97, 114, 121>>,  \* Primary
     \* PrimaryNoNewArray
     <<80, 114, 105, 109, 97, 114, 121, 78, 111, 78, 101, 119, 65, 114, 114,
       97, 121>>,
     <<67, 108, 97, 115, 115, 76, 105, 116, 101, 114, 97, 108>>,  \* ClassLiteral
     \* ClassInstanceCreationExpression
     <<67, 108, 97, 115, 115, 73, 110, 115, 116, 97, 110, 99, 101, 67, 114,
       101, 97, 116, 105, 111, 110, 69, 120, 112, 114, 101, 115, 115, 105, 111,
       110>>,
     \* UnqualifiedClassInstanceCreationExpression
     <<85, 110, 113, 117, 97, 108, 105, 102, 105, 101, 100, 67, 108, 97, 115,
       115, 73, 110, 115, 116, 97, 110, 99, 101, 67, 114, 101, 97, 116, 105,
       111, 110, 69, 120, 112, 114, 101, 115, 115, 105, 111, 110>>,
     \* ClassOrInterfaceTypeToInstantiate
     <<67, 108, 97, 115, 115, 79, 114, 73, 110, 116, 101, 114, 102, 97, 99,
       101, 84, 121, 112, 101, 84, 111, 73, 110, 115, 116, 97, 110, 116, 105,
       97, 116, 101>>,
     \* TypeArgumentsOrDiamond
     <<84, 121, 112, 101, 65, 114, 103, 117, 109, 101, 110, 116, 115, 79, 114,
       68, 105, 97, 109, 111, 110, 100>>,
     \* ArrayCreationExpression
     <<65, 114, 114, 97, 121, 67, 114, 101, 97, 116, 105, 111, 110, 69, 120,
       112, 114, 101, 115, 115, 105, 111, 110>>,
     \* ArrayCreationExpressionWithoutInitializer
     <<65, 114, 114, 97, 121, 67, 114, 101, 97, 116, 105, 111, 110, 69, 120,
       112, 114, 101, 115, 115, 105, 111, 110, 87, 105, 116, 104, 111, 117,
       116, 73, 110, 105, 116, 105, 97, 108, 105, 122, 101, 114>>,
     \* ArrayCreationExpressionWithInitializer
     <<65, 114, 114, 97, 121, 67, 114, 101, 97, 116, 105, 111, 110, 69, 120,
       112, 114, 101, 115, 115, 105, 111, 110, 87, 105, 116, 104, 73, 110, 105,
       116, 105, 97, 108, 105, 122, 101, 114>>,
     <<68, 105, 109, 69, 120, 112, 114, 115>>,  \* DimExprs
     <<68, 105, 109, 69, 120, 112, 114>>,  \* DimExpr
     <<65, 114, 114, 97, 121, 65, 99, 99, 101, 115, 115>>,  \* ArrayAccess
     <<70, 105, 101, 108, 100, 65, 99, 99, 101, 115, 115>>,  \* FieldAccess
     \* MethodInvocation
     <<77, 101, 116, 104, 111, 100, 73, 110, 118, 111, 99, 97, 116, 105, 111,
       110>>,
     \* ArgumentList
     <<65, 114, 103, 117, 109, 101, 110, 116, 76, 105, 115, 116>>,
     \* MethodReference
     <<77, 101, 116, 104, 111, 100, 82, 101, 102, 101, 114, 101, 110, 99,
       101>>,
     <<69, 120, 112, 114, 101, 115, 115, 105, 111, 110>>,  \* Expression
     \* LambdaExpression
     <<76, 97, 109, 98, 100, 97, 69, 120, 112, 114, 101, 115, 115, 105, 111,
       110>>,
     \* LambdaParameters
     <<76, 97, 109, 98, 100, 97, 80, 97, 114, 97, 109, 101, 116, 101, 114,
       115>>,
     \* LambdaParameterList
     <<76, 97, 109, 98, 100, 97, 80, 97, 114, 97, 109, 101, 116, 101, 114, 76,
       105, 115, 116>>,
     \* NormalLambdaParameter
     <<78, 111, 114, 109, 97, 108, 76, 97, 109, 98, 100, 97, 80, 97, 114, 97,
       109, 101, 116, 101, 114>>,
     \* LambdaParameterType
     <<76, 97, 109, 98, 100, 97, 80, 97, 114, 97, 109, 101, 116, 101, 114, 84,
       121, 112, 101>>,
     \* ConciseLambdaParameter
     <<67, 111, 110, 99, 105, 115, 101, 76, 97, 109, 98, 100, 97, 80, 97, 114,
       97, 109, 101, 116, 101, 114>>,
     <<76, 97, 109, 98, 100, 97, 66, 111, 100, 121>>,  \* LambdaBody
     \* AssignmentExpression
     <<65, 115, 115, 105, 103, 110, 109, 101, 110, 116, 69, 120, 112, 114, 101,
       115, 115, 105, 111, 110>>,
     <<65, 115, 115, 105, 103, 110, 109, 101, 110, 116>>,  \* Assignment
     <<76, 101, 102, 116, 72, 97, 110, 100, 83, 105, 100, 101>>,  \* LeftHandSide
     \* AssignmentOperator
     <<65, 115, 115, 105, 103, 110, 109, 101, 110, 116, 79, 112, 101, 114, 97,
       116, 111, 114>>,
     \* ConditionalExpression
     <<67, 111, 110, 100, 105, 116, 105, 111, 110, 97, 108, 69, 120, 112, 114,
       101, 115, 115, 105, 111, 110>>,
     \* ConditionalOrExpression
     <<67, 111, 110, 100, 105, 116, 105, 111, 110, 97, 108, 79, 114, 69, 120,
       112, 114, 101, 115, 115, 105, 111, 110>>,
     \* ConditionalAndExpression
     <<67, 111, 110, 100, 105, 116, 105, 111, 110, 97, 108, 65, 110, 100, 69,
       120, 112, 114, 101, 115, 115, 105, 111, 110>>,
     \* InclusiveOrExpression
     <<73, 110, 99, 108, 117, 115, 105, 118, 101, 79, 114, 69, 120, 112, 114,
       101, 115, 115, 105, 111, 110>>,
     \* ExclusiveOrExpression
     <<69, 120, 99, 108, 117, 115, 105, 118, 101, 79, 114, 69, 120, 112, 114,
       101, 115, 115, 105, 111, 110>>,
     \* AndExpression
     <<65, 110, 100, 69, 120, 112, 114, 101, 115, 115, 105, 111, 110>>,
     \* EqualityExpression
     <<69, 113, 117, 97, 108, 105, 116, 121, 69, 120, 112, 114, 101, 115, 115,
       105, 111, 110>>,
     \* RelationalExpression
     <<82, 101, 108, 97, 116, 105, 111, 110, 97, 108, 69, 120, 112, 114, 101,
       115, 115, 105, 111, 110>>,
     \* InstanceofExpression
     <<73, 110, 115, 116, 97, 110, 99, 101, 111, 102, 69, 120, 112, 114, 101,
       115, 115, 105, 111, 110>>,
     \* ShiftExpression
     <<83, 104, 105, 102, 116, 69, 120, 112, 114, 101, 115, 115, 105, 111,
       110>>,
     \* AdditiveExpression
     <<65, 100, 100, 105, 116, 105, 118, 101, 69, 120, 112, 114, 101, 115, 115,
       105, 111, 110>>,
     \* MultiplicativeExpression
     <<77, 117, 108, 116, 105, 112, 108, 105, 99, 97, 116, 105, 118, 101, 69,
       120, 112, 114, 101, 115, 115, 105, 111, 110>>,
     \* UnaryExpression
     <<85, 110, 97, 114, 121, 69, 120, 112, 114, 101, 115, 115, 105, 111,
       110>>,
     \* PreIncrementExpression
     <<80, 114, 101, 73, 110, 99, 114, 101, 109, 101, 110, 116, 69, 120, 112,
       114, 101, 115, 115, 105, 111, 110>>,
     \* PreDecrementExpression
     <<80, 114, 101, 68, 101, 99, 114, 101, 109, 101, 110, 116, 69, 120, 112,
       114, 101, 115, 115, 105, 111, 110>>,
     \* UnaryExpressionNotPlusMinus
     <<85, 110, 97, 114, 121, 69, 120, 112, 114, 101, 115, 115, 105, 111, 110,
       78, 111, 116, 80, 108, 117, 115, 77, 105, 110, 117, 115>>,
     \* PostfixExpression
     <<80, 111, 115, 116, 102, 105, 120, 69, 120, 112, 114, 101, 115, 115, 105,
       111, 110>>,
     \* PostIncrementExpression
     <<80, 111, 115, 116, 73, 110, 99, 114, 101, 109, 101, 110, 116, 69, 120,
       112, 114, 101, 115, 115, 105, 111, 110>>,
     \* PostDecrementExpression
     <<80, 111, 115, 116, 68, 101, 99, 114, 101, 109, 101, 110, 116, 69, 120,
       112, 114, 101, 115, 115, 105, 111, 110>>,
     \* CastExpression
     <<67, 97, 115, 116, 69, 120, 112, 114, 101, 115, 115, 105, 111, 110>>,
     \* SwitchExpression
     <<83, 119, 105, 116, 99, 104, 69, 120, 112, 114, 101, 115, 115, 105, 111,
       110>>
   >>]

\* "CompactCompilationUnit": a label of CompilationUnit, registered nowhere
sCompactCompilationUnit == <<67, 111, 109, 112, 97, 99, 116, 67, 111, 109, 112, 105,
  108, 97, 116, 105, 111, 110, 85, 110, 105, 116>>

\* the registry module load leaves: each key of a rules.set call, bound to
\* its factory
Loaded_FirstLost(ruleSet) ==
  [n \in { ruleSet[i].name : i \in 2..Len(ruleSet) } |-> n]

Loaded(ruleSet) == [n \in { ruleSet[i].name : i \in 1..Len(ruleSet) } |-> n]

\* names the App, or any caller, asks a registry for
GrammarNames ==
  DOMAIN Loaded(RuleSet25) \cup DOMAIN Loaded(RuleSetLegacy)
    \cup UNION { Range(RepoSectionRules[s]) : s \in DOMAIN RepoSectionRules }
    \cup {sNoSuchRule, sCompactCompilationUnit}

(***************************************************************************)
(* Initial states                                                          *)
(***************************************************************************)
VerifierStart(files) ==
  /\ grammarFile \in files
  /\ ebnfFile \in files
  /\ vpc = "start"
  /\ reads = <<>>
  /\ diagramRules = <<>>
  /\ ebnfRules = <<>>
  /\ missingEbnf = <<>>
  /\ missingDiagram = <<>>
  /\ hasErrors = FALSE
  /\ out = <<>>
  /\ exitCode = -1

VerifierStartWith(gfiles, efiles) ==
  /\ grammarFile \in gfiles
  /\ ebnfFile \in efiles
  /\ vpc = "start"
  /\ reads = <<>>
  /\ diagramRules = <<>>
  /\ ebnfRules = <<>>
  /\ missingEbnf = <<>>
  /\ missingDiagram = <<>>
  /\ hasErrors = FALSE
  /\ out = <<>>
  /\ exitCode = -1

\* module load: both registries populated; nothing rendered yet
RenderStart(libs, runtimes) ==
  /\ rules25 = LoadedRules
  /\ rulesLegacy = LoadedRules
  /\ lib \in libs
  /\ runtime \in runtimes
  /\ renders = <<>>
  /\ crashed = FALSE
  /\ lookups = <<>>
  /\ allocated = 0
  /\ queried = NoQuery

SerializeStart == direct = NoCall

ChainStart(inputs) ==
  /\ chainIn \in inputs
  /\ chainOut = NoResult
  /\ adapterCall = NoAdapterCall

\* every section collapsed at start
AppStart_AllCollapsed(lists) ==
  /\ sectionRules \in [Sections -> lists]
  /\ sectionRules[SECTION_ORDER[2]] \in {<<>>, <<<<98>>, <<65, 98>>>>}
  /\ sectionOrder = SECTION_ORDER
  /\ sectionTitles = SECTION_TITLES
  /\ query = <<>>
  /\ expandedSections = {}
  /\ interacted = FALSE

\* useState(""), useState(() => new Set([SECTION_ORDER[0]]))
AppStart(lists) ==
  /\ sectionRules \in [Sections -> lists]
  /\ sectionRules[SECTION_ORDER[2]] \in {<<>>, <<<<98>>, <<65, 98>>>>}
  /\ sectionOrder = SECTION_ORDER
  /\ sectionTitles = SECTION_TITLES
  /\ query = <<>>
  /\ expandedSections = {sectionOrder[1]}
  /\ interacted = FALSE

Browser == {[xmlSerializer |-> TRUE]}

PlainLib == [shape |-> "function", broken |-> "none", svg |-> "string"]

OneFile == {[readable |-> TRUE, matches |-> <<>>]}

OneChain == {[base |-> <<69>>, ops |-> <<>>]}

OneList == {<<>>}

\* rule lists of a section: every list of names up to the bound
Lists == SeqsUpTo(AppNames, MaxListLen)

(***************************************************************************)
(* Specifications, one per component; Spec composes them                   *)
(***************************************************************************)
VerifierInit ==
  /\ VerifierStart(Files)
  /\ RenderStart({PlainLib}, Browser)
  /\ SerializeStart
  /\ ChainStart(OneChain)
  /\ AppStart(OneList)

VerifierNext ==
  \/ Start
  \/ ReadGrammar
  \/ ReadEbnf
  \/ Compare
  \/ ReportEbnf
  \/ ReportDiagram
  \/ Verdict

VerifierSpec == VerifierInit /\ [][VerifierNext]_vars

RenderInit ==
  /\ VerifierStart(OneFile)
  /\ RenderStart(Libs, Runtimes)
  /\ (lib.svg # "nodeNoOuterHTML" => runtime.xmlSerializer)
  /\ SerializeStart
  /\ ChainStart(OneChain)
  /\ AppStart(OneList)

RenderNext ==
  \/ \E name \in RenderNames : RenderRule25(name)
  \/ \E name \in RenderNames : RenderRuleLegacy(name)

RenderSpec == RenderInit /\ [][RenderNext]_vars

SerializeInit ==
  /\ VerifierStart(OneFile)
  /\ RenderStart({PlainLib}, Runtimes)
  /\ SerializeStart
  /\ ChainStart(OneChain)
  /\ AppStart(OneList)

SerializeNext == \E v \in SerializerInputs : Serialize(v)

SerializeSpec == SerializeInit /\ [][SerializeNext]_vars

ChainInputs == [base : Bases, ops : SeqsUpTo(Operators, MaxOps)]

ChainInit ==
  /\ VerifierStart(OneFile)
  /\ RenderStart(Libs, Browser)
  /\ SerializeStart
  /\ ChainStart(ChainInputs)
  /\ AppStart(OneList)

ChainNext == ApplyChain

ChainSpec == ChainInit /\ [][ChainNext]_vars

AppInit ==
  /\ VerifierStart(OneFile)
  /\ RenderStart({PlainLib}, Browser)
  /\ SerializeStart
  /\ ChainStart(OneChain)
  /\ AppStart(Lists)

AppNext ==
  \/ \E q \in Queries : SetQuery(q)
  \/ \E s \in Sections : ToggleSection(s)
  \/ ExpandAll
  \/ CollapseAll

AppSpec == AppInit /\ [][AppNext]_vars

\* the verifier run on the repository's files
RepoInit ==
  /\ VerifierStartWith(RepoFiles(RepoDiagramKeys), RepoFiles(RepoEbnfKeys))
  /\ RenderStart({PlainLib}, Browser)
  /\ SerializeStart
  /\ ChainStart(OneChain)
  /\ AppStart(OneList)

RepoSpec == RepoInit /\ [][VerifierNext]_vars

AdapterInit ==
  /\ VerifierStart(OneFile)
  /\ RenderStart(AdapterLibs, Browser)
  /\ SerializeStart
  /\ ChainStart(OneChain)
  /\ AppStart(OneList)

AdapterNext == \E adapter \in Adapters, kind \in Kinds : ApplyAdapter(adapter, kind)

AdapterSpec == AdapterInit /\ [][AdapterNext]_vars

LookupInit ==
  /\ VerifierStart(OneFile)
  /\ RenderStart(SoundLibs, Browser)
  /\ SerializeStart
  /\ ChainStart(OneChain)
  /\ AppStart(OneList)

LookupNext == \E name \in RenderNames : Lookup(name)

LookupSpec == LookupInit /\ [][LookupNext]_vars

RegistryInit ==
  /\ VerifierStart(OneFile)
  /\ RenderStart(Libs, Browser)
  /\ SerializeStart
  /\ ChainStart(OneChain)
  /\ AppStart(OneList)

RegistryNext ==
  \/ \E name \in RenderNames : CallCreateRuleDiagram(name)
  \/ \E name \in RenderNames : CallCreateRuleDiagramLegacy(name)
  \/ \E name \in RenderNames : CallGetRuleFactory(name)
  \/ CallGetDiagramRuleNames

RegistrySpec == RegistryInit /\ [][RegistryNext]_vars

\* the two registries as the repository's files load them, and the App over
\* the section index of java25Grammar.ts
GrammarInit ==
  /\ VerifierStart(OneFile)
  /\ rules25 = Loaded(RuleSet25)
  /\ rulesLegacy = Loaded(RuleSetLegacy)
  /\ lib \in SoundLibs
  /\ runtime \in Browser
  /\ renders = <<>>
  /\ crashed = FALSE
  /\ lookups = <<>>
  /\ allocated = 0
  /\ queried = NoQuery
  /\ SerializeStart
  /\ ChainStart(OneChain)
  /\ sectionRules = RepoSectionRules
  /\ sectionOrder = RepoSectionOrder
  /\ sectionTitles = SECTION_TITLES
  /\ query = <<>>
  /\ expandedSections = {sectionOrder[1]}
  /\ interacted = FALSE

\* one call in a run: a call neither changes a registry nor keeps its tree
BuildRule25(name) == queried = NoQuery /\ CallCreateRuleDiagram(name)

BuildRuleLegacy(name) == queried = NoQuery /\ CallCreateRuleDiagramLegacy(name)

GrammarNext ==
  \/ \E name \in GrammarNames : BuildRule25(name)
  \/ \E name \in GrammarNames : BuildRuleLegacy(name)

GrammarSpec == GrammarInit /\ [][GrammarNext]_vars

Init ==
  /\ VerifierStart(Files)
  /\ RenderStart(Libs, Runtimes)
  /\ SerializeStart
  /\ ChainStart(ChainInputs)
  /\ AppStart(Lists)

Next ==
  \/ VerifierNext
  \/ RenderNext
  \/ SerializeNext
  \/ ChainNext
  \/ LookupNext
  \/ RegistryNext
  \/ AdapterNext
  \/ AppNext

Spec == Init /\ [][Next]_vars

(***************************************************************************)
(* Claims                                                                  *)
(***************************************************************************)
\* the key sets the two files hold
KeysA == Range(grammarFile.matches)

KeysB == Range(ebnfFile.matches)

BothRead == grammarFile.readable /\ ebnfFile.readable

\* C1: when both files are read, both mismatch lists are empty and the exit
\* code is 0 if and only if the two key sets are equal; otherwise the exit
\* code is 1.
C1_ExitZeroIffEqual ==
  (vpc = "exited" /\ BothRead) =>
    /\ (missingEbnf = <<>> /\ missingDiagram = <<>>) <=> (KeysA = KeysB)
    /\ exitCode = (IF KeysA = KeysB THEN 0 ELSE 1)

C1_Witness ==
  /\ vpc = "exited"
  /\ BothRead
  /\ KeysA = KeysB
  /\ Cardinality(KeysA) >= 2
  /\ exitCode = 0

\* C2: from equal key sets, removing one name n from the EBNF store gives
\* missingEbnf = [n], missingDiagram = [] and exit code 1; removing it from
\* the diagram registry gives missingDiagram = [n], missingEbnf = [] and
\* exit code 1.
C2_RemoveOne ==
  (vpc = "exited" /\ BothRead) =>
    \A n \in VNames :
      /\ (n \in KeysA /\ KeysB = KeysA \ {n}) =>
           (missingEbnf = <<n>> /\ missingDiagram = <<>> /\ exitCode = 1)
      /\ (n \in KeysB /\ KeysA = KeysB \ {n}) =>
           (missingDiagram = <<n>> /\ missingEbnf = <<>> /\ exitCode = 1)

C2_Witness ==
  /\ vpc = "exited"
  /\ BothRead
  /\ \E n \in KeysA : KeysB = KeysA \ {n} /\ KeysB # {}
  /\ Len(missingEbnf) = 1

\* C10: a failed read of either definition file aborts the run: the failure
\* is reported, the exit code is 1, no mismatch list and no verdict is
\* printed, and a failure on the grammar file stops the run before the EBNF
\* file is read.
C10_ReadFailureAborts ==
  /\ ~grammarFile.readable =>
       /\ "ebnf" \notin Range(reads)
       /\ vpc \in {"start", "readGrammar", "exited"}
  /\ ~BothRead =>
       /\ Tags(out) \cap {"missingEbnfHeader", "missingDiagramHeader", "item",
                          "failed", "passed"} = {}
       /\ vpc \notin {"compare", "reportEbnf", "reportDiagram", "verdict"}
       /\ vpc = "exited" => (exitCode = 1 /\ "readError" \in Tags(out))

C10_Witness ==
  /\ vpc = "exited"
  /\ grammarFile.readable
  /\ ~ebnfFile.readable
  /\ reads = <<"grammar", "ebnf">>

\* the capability builds nodes and draws them: its constructors are factory
\* functions or native classes and toSVG yields the markup
WorkingLib ==
  /\ lib.shape \in {"function", "class"}
  /\ lib.broken = "none"
  /\ lib.svg \in {"string", "node"}

\* C3: for a name with no registered factory, createRuleDiagram followed by
\* diagramToSvgString returns a placeholder string that contains the literal
\* rule name and raises no exception, with the java25Grammar.ts registry as
\* with the javaGrammar.ts one.
C3_UnknownNameNamed ==
  \A i \in 1..Len(renders) :
    (WorkingLib /\ renders[i].name \notin Registered) =>
      /\ renders[i].res.ok
      /\ renders[i].res.val.t = "string"
      /\ Contains(renders[i].res.val.s, renders[i].name)

\* C4: for every registered rule and every behaviour of the render
\* capability, lookup followed by serialization returns a non-empty string
\* and lets no exception escape, so the page keeps rendering.
C4_Closure ==
  /\ ~crashed
  /\ \A i \in 1..Len(renders) :
       (renders[i].reg = "java25" /\ renders[i].name \in Registered) =>
         /\ renders[i].res.ok
         /\ renders[i].res.val.t = "string"
         /\ renders[i].res.val.s # <<>>

Node(kind, args) == Obj(kind, args, lib.svg, "markup")

ExpectedChain(R, ops) ==
  Node("Sequence", <<
    Node("NonTerminal", <<Str(R)>>),
    Node("ZeroOrMore", <<
      Node("Sequence", <<
        Node("Choice", <<Num(0)>> \o
               [i \in 1..Len(ops) |-> Node("Terminal", <<Str(ops[i])>>)]),
        Node("NonTerminal", <<Str(R)>>)>>)>>)>>)

\* C6: chain(R, ops) with a non-empty operator list returns exactly
\* Sequence(NonTerminal(R), ZeroOrMore(Sequence(Choice(0, Terminal(op1), ...,
\* Terminal(opn)), NonTerminal(R)))), the operators in the order given
\* (whenever the capability's constructors are functions or native classes).
C6_ChainShape ==
  (chainOut # NoResult /\ chainIn.ops # <<>>
     /\ lib.shape \in {"function", "class"})
    => /\ chainOut.ok
       /\ chainOut.val = ExpectedChain(chainIn.base, chainIn.ops)

C6_Witness ==
  /\ chainOut # NoResult
  /\ chainOut.ok
  /\ lib.shape = "class"
  /\ Len(chainIn.ops) = 2
  /\ chainIn.ops[1] # chainIn.ops[2]

\* the names of L that satisfy P, in their original relative order
IsSelection(res, L, P(_)) ==
  LET keep == { j \in 1..Len(L) : P(L[j]) }
      nth(i) == CHOOSE j \in keep : Cardinality({ k \in keep : k < j }) = i - 1
  IN /\ Len(res) = Cardinality(keep)
     /\ \A i \in 1..Len(res) : res[i] = L[nth(i)]

\* C7 as stated: the filter returns exactly the names n of L with
\* lowercase(n) containing lowercase(q), in their original order, and L
\* itself for the empty query.
C7_FilterByQuery ==
  \A s \in Sections :
    LET P(n) == Contains(toLowerCase(n), toLowerCase(query))
    IN /\ IsSelection(filteredBySection[s], sectionRules[s], P)
       /\ query = <<>> => filteredBySection[s] = sectionRules[s]

\* C7 amended: the filter returns exactly the names n of L with lowercase(n)
\* containing the lower-cased query stripped of its leading and trailing
\* white space, in their original order, and L itself when the query is
\* empty or all white space.
C7_FilterByTrimmedQuery ==
  \A s \in Sections :
    LET P(n) == Contains(toLowerCase(n), toLowerCase(trim(query)))
    IN /\ IsSelection(filteredBySection[s], sectionRules[s], P)
       /\ trim(query) = <<>> => filteredBySection[s] = sectionRules[s]

C7_Witness ==
  /\ query = <<32, 65>>
  /\ sectionRules[SECTION_ORDER[1]] = << <<98>>, <<65, 98>> >>
  /\ filteredBySection[SECTION_ORDER[1]] = << <<65, 98>> >>

\* a diagnostic placeholder: an HTML comment
IsDiagnostic(s) ==
  /\ Len(s) >= Len(COMMENT_OPEN) + Len(COMMENT_CLOSE)
  /\ SubSeq(s, 1, Len(COMMENT_OPEN)) = COMMENT_OPEN
  /\ SubSeq(s, Len(s) - Len(COMMENT_CLOSE) + 1, Len(s)) = COMMENT_CLOSE

\* toSVG yields a string or a node
YieldsMarkup(v) ==
  HasToSVG(v) /\ v.svg \in {"string", "empty", "node", "nodeNoOuterHTML"}

\* markup production (toSVG, or toString when there is no toSVG) throws an
\* error with message "boom"
ThrowsBoom(v) ==
  \/ HasToSVG(v) /\ v.svg = "throwsError"
  \/ ~HasToSVG(v) /\ v.t = "object" /\ v.str = "throwsError"

\* C8 as stated: every input that is neither empty nor a diagram whose toSVG
\* yields a string or a node gives a diagnostic placeholder that embeds the
\* error message, and no exception propagates.
C8_AlwaysDiagnostic ==
  (direct.called /\ Truthy(direct.input) /\ ~YieldsMarkup(direct.input)) =>
    /\ direct.res.ok
    /\ direct.res.val.t = "string"
    /\ IsDiagnostic(direct.res.val.s)
    /\ ThrowsBoom(direct.input) => Contains(direct.res.val.s, S_boom)

\* C8 amended: for such an input no exception propagates; markup production
\* that throws an error with message m gives "<!-- Render error: m -->"; a
\* toSVG that returns another kind of value, and an input with neither toSVG
\* nor toString, give their fixed diagnostic placeholders; an input without
\* toSVG whose toString returns text gives that text, not a placeholder.
C8_DiagnosticOrToString ==
  (direct.called /\ Truthy(direct.input) /\ ~YieldsMarkup(direct.input)) =>
    LET v == direct.input
        s == direct.res.val.s
    IN /\ direct.res.ok
       /\ direct.res.val.t = "string"
       /\ ThrowsBoom(v) => s = RENDER_ERROR_OPEN \o S_boom \o COMMENT_CLOSE
       /\ (HasToSVG(v) /\ v.svg = "throwsUndefined") =>
            s = RENDER_ERROR_OPEN \o S_undefined \o COMMENT_CLOSE
       /\ (HasToSVG(v) /\ v.svg \in {"null", "number", "plainObject"}) =>
            s = UNEXPECTED_VALUE
       /\ (v.t = "object" /\ v.svg = "absent" /\ v.str = "absent") =>
            s = NOT_SUPPORTED
       /\ (v.t = "object" /\ v.svg = "absent" /\ v.str = "objectObject") =>
            s = OBJECT_OBJECT
       /\ (v.t = "object" /\ v.svg = "absent" /\ v.str = "markup") =>
            s = SvgText(v)
       /\ v.t # "object" => s = ToStr(v)

C8_Witness ==
  /\ direct.called
  /\ direct.input.t = "object"
  /\ direct.input.svg = "throwsError"
  /\ direct.res.ok
  /\ direct.res.val = Str(RENDER_ERROR_OPEN \o S_boom \o COMMENT_CLOSE)

\* C9: diagramToSvgString of undefined, or of any other falsy value, returns
\* the fixed empty-markup placeholder, raises no exception and invokes no
\* operation of the render capability.
C9_EmptyInput ==
  (direct.called /\ ~Truthy(direct.input)) =>
    /\ direct.res.ok
    /\ direct.res.val = Str(EMPTY_DIAGRAM)
    /\ direct.res.calls = <<>>

C9_Witness ==
  /\ direct.called
  /\ direct.input = Undefined
  /\ direct.res.val = Str(EMPTY_DIAGRAM)

\* C11: in every run of the verifier no diagram factory is invoked and no
\* operation of the render capability or of an adapter is called; both key
\* sets come from the text of the two definition files alone.
C11_NoDiagramBuilt ==
  /\ renders = <<>>
  /\ ~crashed
  /\ direct = NoCall
  /\ chainOut = NoResult
  /\ "diagramCount" \in Tags(out) =>
       /\ Range(diagramRules) = KeysA
       /\ NoDuplicates(diagramRules)
  /\ "ebnfCount" \in Tags(out) =>
       /\ Range(ebnfRules) = KeysB
       /\ NoDuplicates(ebnfRules)

C11_Witness ==
  /\ vpc = "exited"
  /\ BothRead
  /\ Len(diagramRules) = 2
  /\ Len(ebnfRules) = 1
  /\ renders = <<>>

\* the report holds the header and, right after it, the names of the list
Listed(header, list) ==
  \E i \in 1..Len(out) :
    /\ out[i].tag = header
    /\ i + Len(list) <= Len(out)
    /\ \A k \in 1..Len(list) : out[i + k] = Ev("item", list[k])

\* C12 as stated: whenever one of the two difference lists is non-empty the
\* report holds both lists, each under its header, and failure is signalled;
\* when both are empty success is signalled.
C12_BothListsReported ==
  (vpc = "exited" /\ BothRead) =>
    IF missingEbnf # <<>> \/ missingDiagram # <<>>
      THEN /\ Listed("missingEbnfHeader", missingEbnf)
           /\ Listed("missingDiagramHeader", missingDiagram)
           /\ "failed" \in Tags(out)
           /\ exitCode = 1
      ELSE /\ "passed" \in Tags(out)
           /\ exitCode = 0

\* C12 amended: the report holds each non-empty difference list under its
\* header and omits an empty list together with its header; failure (FAILED,
\* exit code 1) is signalled when a list is non-empty, success (PASSED, exit
\* code 0) when both are empty.
C12_NonEmptyListsReported ==
  (vpc = "exited" /\ BothRead) =>
    /\ IF missingEbnf # <<>>
         THEN Listed("missingEbnfHeader", missingEbnf)
         ELSE "missingEbnfHeader" \notin Tags(out)
    /\ IF missingDiagram # <<>>
         THEN Listed("missingDiagramHeader", missingDiagram)
         ELSE "missingDiagramHeader" \notin Tags(out)
    /\ IF missingEbnf # <<>> \/ missingDiagram # <<>>
         THEN "failed" \in Tags(out) /\ "passed" \notin Tags(out)
              /\ exitCode = 1
         ELSE "passed" \in Tags(out) /\ "failed" \notin Tags(out)
              /\ "item" \notin Tags(out) /\ exitCode = 0

C12_Witness ==
  /\ vpc = "exited"
  /\ BothRead
  /\ Len(missingEbnf) = 2
  /\ missingDiagram = <<>>
  /\ "missingDiagramHeader" \notin Tags(out)
  /\ "failed" \in Tags(out)

\* C13: the names registered with rules.set in java25Grammar.ts are exactly
\* the keys of EBNF_DEFINITIONS, and the coverage check passes on the files
\* as committed.
C13_RepositoryCovered ==
  /\ Range(RepoDiagramKeys) = Range(RepoEbnfKeys)
  /\ (/\ vpc = "exited"
      /\ BothRead
      /\ grammarFile.matches = RepoDiagramKeys
      /\ ebnfFile.matches = RepoEbnfKeys)
       => /\ missingEbnf = <<>>
          /\ missingDiagram = <<>>
          /\ "passed" \in Tags(out)
          /\ exitCode = 0

C13_Witness ==
  /\ vpc = "exited"
  /\ BothRead
  /\ grammarFile.matches = RepoDiagramKeys
  /\ ebnfFile.matches = RepoEbnfKeys
  /\ Len(diagramRules) = Len(RepoDiagramKeys)
  /\ Len(ebnfRules) = Len(RepoEbnfKeys)
  /\ Len(diagramRules) > 250
  /\ exitCode = 0

\* C14: getEbnfDefinition(name) returns the stored text when name is a key of
\* the EBNF store and undefined for every other string, so that RuleDiagram
\* shows no EBNF block for a name without an entry.
C14_UndefinedForOtherNames ==
  \A i \in 1..Len(renders) :
    renders[i].reg = "java25" =>
      IF renders[i].name \in getEbnfRuleNames
        THEN /\ renders[i].ebnf = EBNF_DEFINITIONS[renders[i].name]
             /\ renders[i].ebnfShown
        ELSE /\ renders[i].ebnf = Undefined
             /\ ~renders[i].ebnfShown

OpsOf(r) == [i \in 1..Len(r.calls) |-> r.calls[i].op]

\* the node new Kind("||") or Kind("||") builds
Built(kind) == Obj(kind, <<Str(sOrOr)>>, lib.svg, "markup")

\* the error a direct call of a class raised
DirectCallError(r) ==
  /\ ~r.ok
  /\ r.val.t = "object"
  /\ r.val.kind = "Error"
  /\ r.val.name = "TypeError"

\* C16 as stated: each of the ten wrappers returns the direct call's result
\* when it succeeds; retries exactly once with new when the direct call fails
\* with the "cannot be invoked without 'new'" error, the retry's outcome
\* being final; and propagates any other error of the direct call with no
\* retry.
C16_RetryOnlyWithoutNew ==
  adapterCall.called =>
    LET r == adapterCall.res
        k == adapterCall.kind
    IN CASE lib.shape = "function" ->
              /\ OpsOf(r) = <<"call">>
              /\ IF lib.broken = k
                   THEN ~r.ok /\ r.val = Err("Error", S_boom)
                   ELSE r.ok /\ r.val = Built(k)
         [] lib.shape = "class" ->
              /\ Len(SelectSeq(OpsOf(r), LAMBDA o : o = "new")) = 1
              /\ IF lib.broken = k
                   THEN ~r.ok /\ r.val = Err("Error", S_boom)
                   ELSE r.ok /\ r.val = Built(k)
         [] lib.shape = "transpiled" ->
              /\ OpsOf(r) = <<"call">>
              /\ DirectCallError(r)
              /\ r.val.message = CANNOT_CALL_CLASS

\* C16 amended: with factory functions both adapters return the direct
\* call's value or propagate its error, with no retry; with native classes rr
\* invokes new at once and callOrNew retries once with new after the failed
\* direct call, the outcome of new being final; with transpiled classes
\* ("Cannot call a class as a function") rr retries once with new and
\* callOrNew propagates the error with no retry.
C16_RetryPerAdapter ==
  adapterCall.called =>
    LET r == adapterCall.res
        k == adapterCall.kind
        a == adapterCall.adapter
        NewIsFinal == IF lib.broken = k
                        THEN ~r.ok /\ r.val = Err("Error", S_boom)
                        ELSE r.ok /\ r.val = Built(k)
    IN CASE lib.shape = "function" ->
              /\ OpsOf(r) = <<"call">>
              /\ NewIsFinal
         [] lib.shape = "class" ->
              /\ OpsOf(r) = IF a = "rr" THEN <<"new">> ELSE <<"call", "new">>
              /\ NewIsFinal
         [] lib.shape = "transpiled" ->
              IF a = "rr"
                THEN /\ OpsOf(r) = <<"call", "new">>
                     /\ NewIsFinal
                ELSE /\ OpsOf(r) = <<"call">>
                     /\ DirectCallError(r)
                     /\ r.val.message = CANNOT_CALL_CLASS

C16_Witness ==
  /\ adapterCall.called
  /\ adapterCall.adapter = "rr"
  /\ adapterCall.kind = "Stack"
  /\ lib.shape = "transpiled"
  /\ lib.broken = "none"
  /\ adapterCall.res.ok
  /\ OpsOf(adapterCall.res) = <<"call", "new">>

\* the difference lists have been computed
Compared == vpc \in {"reportEbnf", "reportDiagram", "verdict"}
            \/ (vpc = "exited" /\ BothRead)

\* C17: missingEbnf holds exactly the names of A that are not in B and
\* missingDiagram exactly the names of B that are not in A, each list in
\* ascending lexicographic order (by UTF-16 code unit) without duplicates,
\* and the two lists share no name.
C17_SortedDifferences ==
  Compared =>
    /\ Range(missingEbnf) = KeysA \ KeysB
    /\ Range(missingDiagram) = KeysB \ KeysA
    /\ IsSorted(missingEbnf) /\ NoDuplicates(missingEbnf)
    /\ IsSorted(missingDiagram) /\ NoDuplicates(missingDiagram)
    /\ Range(missingEbnf) \cap Range(missingDiagram) = {}

C17_Witness ==
  /\ vpc = "exited"
  /\ BothRead
  /\ grammarFile.matches = << <<97>>, <<65, 66>>, <<65>> >>
  /\ ebnfFile.matches = << <<97>>, <<97>> >>
  /\ missingEbnf = << <<65>>, <<65, 66>> >>
  /\ missingDiagram = <<>>

\* the place of a report line in the order counts, lists, verdict
Rank(tag) ==
  CASE tag = "banner" -> 0
    [] tag = "diagramCount" -> 1
    [] tag = "ebnfCount" -> 2
    [] tag \in {"missingEbnfHeader", "missingDiagramHeader", "item"} -> 3
    [] tag \in {"failed", "passed"} -> 4
    [] OTHER -> 5

\* the lines of the report that are not blank
Lines == SelectSeq(out, LAMBDA e : e.tag # "blank")

Verdicts == SelectSeq(out, LAMBDA e : e.tag \in {"failed", "passed"})

\* C18: in a run whose two reads succeed the diagram count and the EBNF
\* count are printed first, then any mismatch lists, then exactly one
\* verdict (PASSED or FAILED, never both), then the one process exit; after
\* the exit nothing is printed.
C18_ReportOrder ==
  /\ [](BothRead =>
         /\ \A i, j \in 1..Len(Lines) :
              i < j => Rank(Lines[i].tag) <= Rank(Lines[j].tag)
         /\ Len(SelectSeq(out, LAMBDA e : e.tag = "diagramCount")) <= 1
         /\ Len(SelectSeq(out, LAMBDA e : e.tag = "ebnfCount")) <= 1
         /\ IF vpc = "exited"
              THEN /\ Len(Verdicts) = 1
                   /\ out[Len(out)] = Verdicts[1]
                   /\ {"diagramCount", "ebnfCount"} \subseteq Tags(out)
                   /\ exitCode \in {0, 1}
              ELSE /\ Verdicts = <<>>
                   /\ exitCode = -1)
  /\ [][exitCode # -1 => UNCHANGED <<out, exitCode, vpc>>]_vars

C18_Witness ==
  /\ vpc = "exited"
  /\ BothRead
  /\ {"missingEbnfHeader", "missingDiagramHeader"} \subseteq Tags(out)
  /\ Len(Verdicts) = 1
  /\ out[Len(out)].tag = "failed"

\* C19: when toSVG returns a string, diagramToSvgString returns that string
\* unchanged; when toSVG returns a node, it returns the node's outerHTML, or,
\* when outerHTML is absent, what XMLSerializer writes for the node (in a
\* runtime that has XMLSerializer).
C19_StringOrNodeMarkup ==
  (direct.called /\ Truthy(direct.input) /\ HasToSVG(direct.input)) =>
    LET svg == ToSVG(direct.input)
    IN /\ (svg.ok /\ svg.val.t = "string") =>
            (direct.res.ok /\ direct.res.val = svg.val)
       /\ (svg.ok /\ IsNode(svg.val) /\ svg.val.outerHTML # Undefined) =>
            (direct.res.ok /\ direct.res.val = svg.val.outerHTML)
       /\ (/\ svg.ok
           /\ IsNode(svg.val)
           /\ svg.val.outerHTML = Undefined
           /\ runtime.xmlSerializer) =>
            (direct.res.ok /\ direct.res.val = Str(svg.val.xml))

C19_Witness ==
  /\ direct.called
  /\ HasToSVG(direct.input)
  /\ direct.input.svg = "nodeNoOuterHTML"
  /\ direct.input.args # <<>>
  /\ runtime.xmlSerializer
  /\ direct.res.ok
  /\ direct.res.val = Str(XmlText(direct.input))

\* the nodes of a tree
RECURSIVE NodeCount(_)
RECURSIVE NodeCountAll(_)
NodeCountAll(args) ==
  IF args = <<>> THEN 0
  ELSE NodeCount(Head(args)) + NodeCountAll(Tail(args))

NodeCount(v) ==
  IF v.t = "object" THEN 1 + NodeCountAll(v.args) ELSE 0

\* C20: every call of createRuleDiagram(name) runs the rule's factory again
\* and returns a newly built tree; the registry keeps no tree, and in any
\* sequence of lookups, of the same or of different names, no node of one
\* returned tree belongs to the tree another call returned.
C20_FreshTrees ==
  /\ rules25 = LoadedRules
  /\ \A i \in 1..Len(lookups) :
       lookups[i].name \in Registered =>
         /\ lookups[i].ok
         /\ NodeCount(lookups[i].root) >= 1
         /\ lookups[i].last - lookups[i].first + 1 = NodeCount(lookups[i].root)
  /\ \A i, j \in 1..Len(lookups) :
       i < j =>
         (lookups[i].first..lookups[i].last)
           \cap (lookups[j].first..lookups[j].last) = {}

C20_Witness ==
  /\ Len(lookups) = 3
  /\ lookups[1].name = sIdentifier
  /\ lookups[2].name = sConditionalOrExpression
  /\ lookups[3].name = sIdentifier
  /\ lookups[1].root = lookups[3].root
  /\ lookups[1].last < lookups[2].first
  /\ lookups[2].last < lookups[3].first
  /\ lib.shape = "transpiled"

\* C21: after module load no sequence of calls of createRuleDiagram,
\* getDiagramRuleNames and getRuleFactory adds, removes or replaces a
\* registry entry: the key set and the factory bound to each key stay what
\* they were at the end of initialization.
C21_RegistryReadOnly ==
  /\ [](/\ DOMAIN rules25 = Registered
        /\ DOMAIN rulesLegacy = Registered
        /\ rules25 = LoadedRules
        /\ rulesLegacy = LoadedRules)
  /\ [][UNCHANGED <<rules25, rulesLegacy>>]_vars

C21_Witness ==
  /\ queried.op = "getRuleFactory"
  /\ queried.name = sIdentifierChars
  /\ queried.res.val = Fn(sIdentifierChars)
  /\ rulesLegacy = LoadedRules
  /\ rules25 = LoadedRules

\* C22: after any sequence of filter-query changes in the App, SECTION_RULES,
\* SECTION_ORDER and SECTION_TITLES are what they were: the filter yields a
\* separate list per section, a sub-list of the index in the index's order,
\* and never adds, removes or reorders names of the index.
C22_IndexUntouched ==
  /\ [](/\ sectionOrder = SECTION_ORDER
        /\ sectionTitles = SECTION_TITLES
        /\ \A s \in Sections :
             \E keep \in SUBSET (1..Len(sectionRules[s])) :
               LET pick(i) == i \in keep
                   idx == SelectSeq([i \in 1..Len(sectionRules[s]) |-> i],
                                    pick)
               IN filteredBySection[s] =
                    [k \in 1..Len(idx) |-> sectionRules[s][idx[k]]])
  /\ [][UNCHANGED <<sectionRules, sectionOrder, sectionTitles>>]_vars

C22_Witness ==
  /\ interacted
  /\ query = <<65>>
  /\ sectionRules[SECTION_ORDER[1]] = << <<65, 98>>, <<98>> >>
  /\ filteredBySection[SECTION_ORDER[1]] = << <<65, 98>> >>
  /\ sectionOrder = SECTION_ORDER

\* the kinds of the nodes of a tree
RECURSIVE KindsIn(_)
KindsIn(v) ==
  IF v.t # "object" THEN {}
  ELSE {v.kind} \cup UNION { KindsIn(v.args[i]) : i \in DOMAIN v.args }

\* the latest registry call built a tree
BuiltTree ==
  /\ queried.op \in {"createRuleDiagram", "createRuleDiagramLegacy"}
  /\ queried.res.ok
  /\ queried.res.val.t = "object"

\* the latest registry call had to build one: a registered name, or any name
\* asked of javaGrammar.ts, with a capability the adapter can drive
MustBuild ==
  \/ /\ queried.op = "createRuleDiagram"
     /\ queried.name \in DOMAIN rules25
  \/ /\ queried.op = "createRuleDiagramLegacy"
     /\ lib.shape \in {"function", "class"}

\* C23: every tree a registered factory produces, and the placeholder tree
\* javaGrammar.ts builds for an unknown name, has a Diagram node as its root
\* and no Diagram node below the root.
C23_DiagramRootOnly ==
  /\ MustBuild => BuiltTree
  /\ BuiltTree =>
       /\ queried.res.val.kind = "Diagram"
       /\ \A i \in DOMAIN queried.res.val.args :
            "Diagram" \notin KindsIn(queried.res.val.args[i])

C23_Witness ==
  /\ BuiltTree
  /\ queried.op = "createRuleDiagramLegacy"
  /\ queried.name = sNoSuchRule
  /\ queried.res.val.kind = "Diagram"
  /\ KindsIn(queried.res.val) = {"Diagram", "Comment"}

\* the nodes of a tree
RECURSIVE NodesIn(_)
NodesIn(v) ==
  IF v.t # "object" THEN {}
  ELSE {v} \cup UNION { NodesIn(v.args[i]) : i \in DOMAIN v.args }

\* C24: every Choice node of every tree a registered factory produces is
\* built with default index 0 and has at least one alternative, each of them
\* a node.
C24_ChoiceIndexZero ==
  BuiltTree =>
    \A n \in NodesIn(queried.res.val) :
      n.kind = "Choice" =>
        /\ Len(n.args) >= 2
        /\ n.args[1] = Num(0)
        /\ \A i \in 2..Len(n.args) : n.args[i].t = "object"

C24_Witness ==
  /\ BuiltTree
  /\ queried.op = "createRuleDiagramLegacy"
  /\ queried.name = sConditionalOrExpression
  /\ \E n \in NodesIn(queried.res.val) :
       /\ n.kind = "Choice"
       /\ Len(n.args) = 2
       /\ n.args[1] = Num(0)

\* the left-recursive binary-operator rules: the rule, the operand rule and
\* the operator tokens
BinaryRules == <<
  \* ConditionalOrExpression: ConditionalAndExpression ( (||) ConditionalAndExpression )*
  [rule |-> <<67, 111, 110, 100, 105, 116, 105, 111, 110, 97, 108, 79, 114, 69, 120, 112, 114, 101, 115, 115, 105, 111, 110>>,
   base |-> <<67, 111, 110, 100, 105, 116, 105, 111, 110, 97, 108, 65, 110, 100, 69, 120, 112, 114, 101, 115, 115, 105, 111, 110>>,
   ops |-> <<<<124, 124>>>>],
  \* ConditionalAndExpression: InclusiveOrExpression ( (&&) InclusiveOrExpression )*
  [rule |-> <<67, 111, 110, 100, 105, 116, 105, 111, 110, 97, 108, 65, 110, 100, 69, 120, 112, 114, 101, 115, 115, 105, 111, 110>>,
   base |-> <<73, 110, 99, 108, 117, 115, 105, 118, 101, 79, 114, 69, 120, 112, 114, 101, 115, 115, 105, 111, 110>>,
   ops |-> <<<<38, 38>>>>],
  \* InclusiveOrExpression: ExclusiveOrExpression ( (|) ExclusiveOrExpression )*
  [rule |-> <<73, 110, 99, 108, 117, 115, 105, 118, 101, 79, 114, 69, 120, 112, 114, 101, 115, 115, 105, 111, 110>>,
   base |-> <<69, 120, 99, 108, 117, 115, 105, 118, 101, 79, 114, 69, 120, 112, 114, 101, 115, 115, 105, 111, 110>>,
   ops |-> <<<<124>>>>],
  \* ExclusiveOrExpression: AndExpression ( (^) AndExpression )*
  [rule |-> <<69, 120, 99, 108, 117, 115, 105, 118, 101, 79, 114, 69, 120, 112, 114, 101, 115, 115, 105, 111, 110>>,
   base |-> <<65, 110, 100, 69, 120, 112, 114, 101, 115, 115, 105, 111, 110>>,
   ops |-> <<<<94>>>>],
  \* AndExpression: EqualityExpression ( (&) EqualityExpression )*
  [rule |-> <<65, 110, 100, 69, 120, 112, 114, 101, 115, 115, 105, 111, 110>>,
   base |-> <<69, 113, 117, 97, 108, 105, 116, 121, 69, 120, 112, 114, 101, 115, 115, 105, 111, 110>>,
   ops |-> <<<<38>>>>],
  \* EqualityExpression: RelationalExpression ( (== | !=) RelationalExpression )*
  [rule |-> <<69, 113, 117, 97, 108, 105, 116, 121, 69, 120, 112, 114, 101, 115, 115, 105, 111, 110>>,
   base |-> <<82, 101, 108, 97, 116, 105, 111, 110, 97, 108, 69, 120, 112, 114, 101, 115, 115, 105, 111, 110>>,
   ops |-> <<<<61, 61>>, <<33, 61>>>>],
  \* ShiftExpression: AdditiveExpression ( (<< | >> | >>>) AdditiveExpression )*
  [rule |-> <<83, 104, 105, 102, 116, 69, 120, 112, 114, 101, 115, 115, 105, 111, 110>>,
   base |-> <<65, 100, 100, 105, 116, 105, 118, 101, 69, 120, 112, 114, 101, 115, 115, 105, 111, 110>>,
   ops |-> <<<<60, 60>>, <<62, 62>>, <<62, 62, 62>>>>],
  \* AdditiveExpression: MultiplicativeExpression ( (+ | -) MultiplicativeExpression )*
  [rule |-> <<65, 100, 100, 105, 116, 105, 118, 101, 69, 120, 112, 114, 101, 115, 115, 105, 111, 110>>,
   base |-> <<77, 117, 108, 116, 105, 112, 108, 105, 99, 97, 116, 105, 118, 101, 69, 120, 112, 114, 101, 115, 115, 105, 111, 110>>,
   ops |-> <<<<43>>, <<45>>>>],
  \* MultiplicativeExpression: UnaryExpression ( (* | / | %) UnaryExpression )*
  [rule |-> <<77, 117, 108, 116, 105, 112, 108, 105, 99, 97, 116, 105, 118, 101, 69, 120, 112, 114, 101, 115, 115, 105, 111, 110>>,
   base |-> <<85, 110, 97, 114, 121, 69, 120, 112, 114, 101, 115, 115, 105, 111, 110>>,
   ops |-> <<<<42>>, <<47>>, <<37>>>>]
>>

BinaryRule(name) ==
  BinaryRules[CHOOSE i \in 1..Len(BinaryRules) : BinaryRules[i].rule = name]

BinaryRuleNames == { BinaryRules[i].rule : i \in 1..Len(BinaryRules) }

\* the tree the chain form gives a binary-operator rule
ChainTree(name) ==
  Node("Diagram",
       <<ExpectedChain(BinaryRule(name).base, BinaryRule(name).ops)>>)

\* C26: for each left-recursive binary-operator rule the registered tree is
\* exactly Diagram(Sequence(NonTerminal(base), ZeroOrMore(Sequence(Choice(0,
\* operators...), NonTerminal(base))))), in java25Grammar.ts as in
\* javaGrammar.ts.
C26_ChainFormInBothRegistries ==
  (BuiltTree /\ queried.name \in BinaryRuleNames) =>
    queried.res.val = ChainTree(queried.name)

\* the same, of javaGrammar.ts alone
ChainFormLegacy ==
  (/\ BuiltTree
   /\ queried.op = "createRuleDiagramLegacy"
   /\ queried.name \in BinaryRuleNames) =>
    queried.res.val = ChainTree(queried.name)

\* no binary-operator rule of java25Grammar.ts has the chain form
NoChainForm25 ==
  (/\ BuiltTree
   /\ queried.op = "createRuleDiagram"
   /\ queried.name \in BinaryRuleNames) =>
    queried.res.val # ChainTree(queried.name)

\* "UnaryExpression"
sUnaryExpression == <<85, 110, 97, 114, 121, 69, 120, 112, 114, 101, 115, 115, 105, 111, 110>>

\* the constructor a helper of either grammar file wraps
KindOf(h) ==
  CASE h = "D" -> "Diagram"
    [] h = "Seq" -> "Sequence"
    [] h = "Ch" -> "Choice"
    [] h = "Opt" -> "Optional"
    [] h = "OOM" -> "OneOrMore"
    [] h = "ZOM" -> "ZeroOrMore"
    [] h = "Stk" -> "Stack"
    [] h = "Cmt" -> "Comment"
    [] h = "T" -> "Terminal"
    [] h = "NT" -> "NonTerminal"
    [] OTHER -> h

\* the tree written in a rule's own body: one node per call of a helper, the
\* literals kept as they are
RECURSIVE TreeOf(_)
TreeOf(e) ==
  CASE e.h = "string" -> Str(e.s)
    [] e.h = "number" -> Num(e.n)
    [] e.h = "chain" ->
         ExpectedChain(e.a[1].s, [i \in 1..Len(e.a[2].a) |-> e.a[2].a[i].s])
    [] OTHER -> Node(KindOf(e.h), [i \in 1..Len(e.a) |-> TreeOf(e.a[i])])

\* the body registered under the name the latest call asked for
OwnBody ==
  IF queried.op = "createRuleDiagram"
    THEN Body(RuleSet25, queried.name)
    ELSE Body(RuleSetLegacy, queried.name)

RegisteredCall ==
  \/ queried.op = "createRuleDiagram" /\ queried.name \in DOMAIN rules25
  \/ /\ queried.op = "createRuleDiagramLegacy"
     /\ queried.name \in DOMAIN rulesLegacy
     /\ lib.shape \in {"function", "class"}

\* C27: building the tree of a registered rule runs that rule's own factory
\* only and completes: the tree is the one written in the rule's body, every
\* construction the capability was asked for is a node of it, and a
\* NonTerminal keeps its label as text, whether the label names the rule
\* itself, another rule or no registered rule.
C27_OwnFactoryOnly ==
  RegisteredCall =>
    /\ BuiltTree
    /\ queried.res.val = TreeOf(OwnBody)
    /\ Constructed(queried.res) = NodeCount(queried.res.val)
    /\ \A n \in NodesIn(queried.res.val) :
         n.kind = "NonTerminal" =>
           Len(n.args) = 1 /\ n.args[1].t = "string"

C27_Witness ==
  /\ BuiltTree
  /\ queried.op = "createRuleDiagram"
  /\ queried.name = sUnaryExpression
  /\ Node("NonTerminal", <<Str(sUnaryExpression)>>)
       \in NodesIn(queried.res.val)
  /\ Constructed(queried.res) = NodeCount(queried.res.val)

\* the query has a character that is not white space
Filtering == \E i \in 1..Len(query) : query[i] \notin WhiteSpace

\* some rule of the section contains the trimmed query, case ignored
HasMatch(s) ==
  \E i \in 1..Len(sectionRules[s]) :
    Contains(toLowerCase(sectionRules[s][i]), toLowerCase(trim(query)))

Toggled(s) ==
  IF s \in expandedSections THEN expandedSections \ {s}
                            ELSE expandedSections \cup {s}

\* C28, as stated: while the query is non-empty a section is shown expanded
\* exactly when it has a matching rule and a section with no match is not
\* rendered, whatever expandedSections holds; with the query empty a section
\* is expanded exactly when it is in expandedSections.
C28_ExpandedWhileQueryNonEmpty ==
  \A s \in Sections :
    /\ query # <<>> =>
         /\ RuleListRendered(s) <=> ruleCount(s) > 0
         /\ SectionRendered(s) <=> ruleCount(s) > 0
    /\ query = <<>> =>
         /\ SectionRendered(s)
         /\ RuleListRendered(s) <=> s \in expandedSections

\* C28, amended: the same with "the query, trimmed, is non-empty" for "the
\* query is non-empty"; and while filtering, toggling a section, expand-all
\* and collapse-all stay available and are the steps that change
\* expandedSections.
C28_ExpandedWhileFiltering ==
  /\ [](\A s \in Sections :
          /\ Filtering =>
               /\ RuleListRendered(s) <=> HasMatch(s)
               /\ SectionRendered(s) <=> HasMatch(s)
          /\ ~Filtering =>
               /\ SectionRendered(s)
               /\ RuleListRendered(s) <=> s \in expandedSections
          /\ ENABLED ToggleSection(s))
  /\ [][query' = query =>
          /\ expandedSections' # expandedSections
          /\ \/ \E s \in Sections : expandedSections' = Toggled(s)
             \/ expandedSections' = Range(sectionOrder)
             \/ expandedSections' = {}]_vars

C28_Witness ==
  /\ interacted
  /\ query = <<65>>
  /\ sectionRules[SECTION_ORDER[1]] = << <<98>> >>
  /\ sectionRules[SECTION_ORDER[2]] = << <<98>>, <<65, 98>> >>
  /\ expandedSections = {SECTION_ORDER[1]}
  /\ ~SectionRendered(SECTION_ORDER[1])
  /\ RuleListRendered(SECTION_ORDER[2])

\* the nine section ids of java25Grammar.ts
SectionIds == {"lexical", "types", "names", "packages", "classes",
               "interfaces", "arrays", "statements", "expressions"}

\* every entry of the section index, section after section
RECURSIVE Flatten(_)
Flatten(lists) ==
  IF lists = <<>> THEN <<>> ELSE Head(lists) \o Flatten(Tail(lists))

IndexEntries ==
  Flatten([k \in 1..Len(sectionOrder) |-> sectionRules[sectionOrder[k]]])

\* C29: in java25Grammar.ts SECTION_ORDER lists each of the nine section ids
\* exactly once, every name of SECTION_RULES has a registered factory, and
\* every registered rule name appears in exactly one section list, once; so
\* every rule the index offers builds a tree.
C29_IndexMatchesRegistry ==
  /\ Len(sectionOrder) = Cardinality(SectionIds)
  /\ Range(sectionOrder) = SectionIds
  /\ DOMAIN sectionRules = SectionIds
  /\ Range(IndexEntries) \subseteq DOMAIN rules25
  /\ DOMAIN rules25 \subseteq Range(IndexEntries)
  /\ Len(IndexEntries) = Cardinality(Range(IndexEntries))
  /\ (/\ queried.op = "createRuleDiagram"
      /\ queried.name \in Range(IndexEntries)) => BuiltTree

C29_Witness ==
  /\ queried.op = "createRuleDiagram"
  /\ sectionOrder[Len(sectionOrder)] = "expressions"
  /\ queried.name =
       sectionRules["expressions"][Len(sectionRules["expressions"])]
  /\ BuiltTree
  /\ Len(IndexEntries) = Cardinality(DOMAIN rules25)

\* what a call gave its caller: a value or a thrown value
Outcome(r) == [ok |-> r.ok, val |-> r.val]

\* the same constructor and arguments through the other adapter
OtherAdapter ==
  IF adapterCall.adapter = "rr"
    THEN HelperLegacy(adapterCall.kind, sOrOr)
    ELSE Helper25(adapterCall.kind, sOrOr)

\* C30: rr and callOrNew give the same outcome for the same arguments when
\* the capability is a plain function, returning a value or throwing an
\* error of its own, or a native class whose bare call fails with TypeError
\* "Class constructor X cannot be invoked without 'new'".
C30_AdaptersAgree ==
  (adapterCall.called /\ lib.shape \in {"function", "class"}) =>
    /\ Outcome(adapterCall.res) = Outcome(OtherAdapter)
    /\ IF lib.broken = adapterCall.kind
         THEN ~adapterCall.res.ok /\ adapterCall.res.val = Err("Error", S_boom)
         ELSE adapterCall.res.ok /\ adapterCall.res.val = Built(adapterCall.kind)

C30_Witness ==
  /\ adapterCall.called
  /\ adapterCall.adapter = "callOrNew"
  /\ adapterCall.kind = "Choice"
  /\ lib.shape = "class"
  /\ lib.broken = "none"
  /\ OpsOf(adapterCall.res) = <<"call", "new">>
  /\ OpsOf(OtherAdapter) = <<"new">>
  /\ Outcome(adapterCall.res) = Outcome(OtherAdapter)

====
